---------------------------- MODULE Spec2Model ----------------------------
(***************************************************************************)
(* Model of the picture archive codec of src/core/SkPictureData.cpp:       *)
(* SkPictureData::serialize / flattenToBuffer (encoder) and                *)
(* SkPictureData::CreateFromStream / parseStream / parseStreamTag /        *)
(* parseBufferTag / parseBuffer (decoder).                                 *)
(*                                                                         *)
(* Streams are sequences of bytes.  A 32-bit word is four bytes, least     *)
(* significant first; its value is held as the int32_t with the same bits  *)
(* (a uint32_t u >= 2^31 is u - 2^32), and comparisons of unsigned values  *)
(* are made with ULess.  The flattenables (paint, path, text blob, vertices, *)
(* image, drawable, typeface) are black boxes of the repository whose      *)
(* code is not part of SkPictureData.cpp; each is modelled by a small      *)
(* self-delimiting encoding that its reader accepts and that any other     *)
(* bytes fail.  The release build is modelled: SkASSERT and SkDEBUGCODE    *)
(* compile to nothing; the conditions they state are recorded in the       *)
(* variable asserts, which no handler reads.                               *)
(***************************************************************************)
EXTENDS Integers, Sequences, FiniteSets, TLC

(***************************************************************************)
(* Bounds of the model.                                                    *)
(***************************************************************************)
NumTypefaces == 2      \* typefaces a paint can reference
MaxSections == 3       \* sections of a hand-built archive
\* The longest factory name, and the most factories of a factory set, of the
\* factory sets that WriteFactories is applied to on its own.
MaxNameLen == 255
MaxFactories == 3

None == <<>>
Some(x) == <<x>>

Min(a, b) == IF a < b THEN a ELSE b

(***************************************************************************)
(* Tags (SkPictureFlat.h: SET_FOUR_BYTE_TAG(a, b, c, d)).                  *)
(***************************************************************************)
FourCC(a, b, c, d) == ((a * 256 + b) * 256 + c) * 256 + d

SK_PICT_READER_TAG == FourCC(114, 101, 97, 100)           \* 'read'
SK_PICT_FACTORY_TAG == FourCC(102, 97, 99, 116)           \* 'fact'
SK_PICT_TYPEFACE_TAG == FourCC(116, 112, 102, 99)         \* 'tpfc'
SK_PICT_PICTURE_TAG == FourCC(112, 99, 116, 114)          \* 'pctr'
SK_PICT_DRAWABLE_TAG == FourCC(100, 114, 97, 119)         \* 'draw'
SK_PICT_BUFFER_SIZE_TAG == FourCC(97, 114, 97, 121)       \* 'aray'
SK_PICT_PAINT_BUFFER_TAG == FourCC(112, 110, 116, 32)     \* 'pnt '
SK_PICT_PATH_BUFFER_TAG == FourCC(112, 116, 104, 32)      \* 'pth '
SK_PICT_TEXTBLOB_BUFFER_TAG == FourCC(98, 108, 111, 98)   \* 'blob'
SK_PICT_VERTICES_BUFFER_TAG == FourCC(118, 101, 114, 116) \* 'vert'
SK_PICT_IMAGE_BUFFER_TAG == FourCC(105, 109, 97, 103)     \* 'imag'
SK_PICT_EOF_TAG == FourCC(101, 111, 102, 32)              \* 'eof '
UnknownTag == FourCC(122, 122, 122, 122)                  \* no tag of the format

(***************************************************************************)
(* SkWStream / SkStream primitives on byte sequences.                      *)
(***************************************************************************)
write32(v) ==
    << v % 256, (v \div 256) % 256, (v \div 65536) % 256, (v \div 16777216) % 256 >>

word_at(s, pos) ==
    s[pos + 1] + 256 * s[pos + 2] + 65536 * s[pos + 3]
        + 16777216 * (IF s[pos + 4] >= 128 THEN s[pos + 4] - 256 ELSE s[pos + 4])

\* a < b for two uint32_t
ULess(a, b) == IF (a >= 0) = (b >= 0) THEN a < b ELSE b < 0

\* SkStream::readU32: fails, consuming what is left, when fewer than 4 bytes remain.
readU32(s, pos) ==
    IF pos + 4 <= Len(s)
    THEN [ok |-> TRUE, val |-> word_at(s, pos), pos |-> pos + 4]
    ELSE [ok |-> FALSE, val |-> 0, pos |-> Len(s)]

\* SkStream::read(buf, n): the bytes read (fewer than n at the end of the stream).
read_bytes(s, pos, n) ==
    LET m == IF n < 0 THEN Len(s) - pos ELSE Min(n, Len(s) - pos)
    IN  [bytes |-> SubSeq(s, pos + 1, pos + m), pos |-> pos + m]

\* SkWStream::writePackedUInt / SizeOfPackedUInt: one byte below 255, else 255
\* followed by the 32-bit value.
SizeOfPackedUInt(v) == IF v < 255 THEN 1 ELSE 5
writePackedUInt(v) == IF v < 255 THEN << v >> ELSE << 255 >> \o write32(v)

readPackedUInt(s, pos) ==
    IF pos >= Len(s) THEN [ok |-> FALSE, val |-> 0, pos |-> Len(s)]
    ELSE IF s[pos + 1] < 255 THEN [ok |-> TRUE, val |-> s[pos + 1], pos |-> pos + 1]
    ELSE readU32(s, pos + 1)

\* write_tag_size(SkWStream*, tag, size) and write_tag_size(SkWriteBuffer&, tag, size).
write_tag_size(tag, size) == write32(tag) \o write32(size)

(***************************************************************************)
(* SkPtrSet (SkRefCntSet, SkFactorySet): a set kept in first-added order;  *)
(* add returns the 1-based index of the pointer.                           *)
(***************************************************************************)
PtrSetHas(set, x) == \E i \in 1..Len(set) : set[i] = x
PtrSetAdd(set, x) == IF PtrSetHas(set, x) THEN set ELSE Append(set, x)
PtrSetFind(set, x) == CHOOSE i \in 1..Len(set) : set[i] = x

(***************************************************************************)
(* The flattenables.  A typeface, a path, a text blob, an image, a         *)
(* vertices object and a drawable are identified by a number >= 1; a paint *)
(* is its typeface (0: none) and its effect, a flattenable created by a    *)
(* factory (0: none).                                                      *)
(***************************************************************************)
KindCode == [paint |-> 1, path |-> 2, textblob |-> 3, image |-> 4, drawable |-> 5]
ItemWord(kind, id) == KindCode[kind] * 256 + id
IsItemWord(kind, w) == w \div 256 = KindCode[kind] /\ w % 256 >= 1

strlen(name) == Len(name)

\* SkFlattenable::FactoryToName / NameToFactory: the registry of factory names.
\* Factory 1 is a paint effect, factory 2 creates drawables.
\* The factories 1 and 2 are registered under names of two bytes.  The others
\* can be added to a factory set but resolve to no registered name: 3 has
\* no name (FactoryToName returns nullptr), 4 the empty name, 5 a name of
\* MaxNameLen - 1 bytes and 6 one of MaxNameLen bytes.
Factories == {1, 2}
OddFactories == 3..6
FactoryToName(f) ==
    CASE f \in Factories -> Some(<< 70, 48 + f >>)
      [] f = 3 -> None
      [] f = 4 -> Some(<< >>)
      [] f = 5 -> Some([i \in 1..(MaxNameLen - 1) |-> 78])
      [] f = 6 -> Some([i \in 1..MaxNameLen |-> 78])
NameToFactory(name) ==
    IF \E f \in Factories : FactoryToName(f) = Some(name)
    THEN CHOOSE f \in Factories : FactoryToName(f) = Some(name)
    ELSE 0

\* SkTypeface::serialize(stream) and SkTypeface::MakeDeserialize(stream).
DefaultTypeface == 255
TypefaceMark == 84
SerializeTypeface(t) == << TypefaceMark, t >>
MakeDeserialize(s, pos) ==
    LET r == read_bytes(s, pos, 2)
    IN  [tf |-> IF Len(r.bytes) = 2 /\ r.bytes[1] = TypefaceMark /\ r.bytes[2] >= 1
                THEN Some(r.bytes[2]) ELSE None,
         pos |-> r.pos]

\* SkVertices::encode() and SkVertices::Decode(data, size).
VerticesMark == 86
EncodeVertices(v) == << VerticesMark, v >>
DecodeVertices(bytes) ==
    IF Len(bytes) = 2 /\ bytes[1] = VerticesMark /\ bytes[2] >= 1
    THEN Some(bytes[2]) ELSE None

(***************************************************************************)
(* SkBinaryWriteBuffer: the bytes written and the two recorders.           *)
(***************************************************************************)
WriteBuffer(bytes, factSet, tfSet) ==
    [bytes |-> bytes, factSet |-> factSet, tfSet |-> tfSet]

writeUInt(b, v) == [b EXCEPT !.bytes = @ \o write32(v)]

\* writeTypeface: 0 for no typeface, else the 1-based id the recorder gives it.
writeTypeface(b, tf) ==
    IF tf = 0 THEN writeUInt(b, 0)
    ELSE LET set == PtrSetAdd(b.tfSet, tf)
         IN  [writeUInt(b, PtrSetFind(set, tf)) EXCEPT !.tfSet = set]

\* writeFlattenable's factory reference: 0 for null, else the 1-based id.
writeFactory(b, f) ==
    IF f = 0 THEN writeUInt(b, 0)
    ELSE LET set == PtrSetAdd(b.factSet, f)
         IN  [writeUInt(b, PtrSetFind(set, f)) EXCEPT !.factSet = set]

writePaint(b, paint) ==
    writeFactory(writeTypeface(writeUInt(b, ItemWord("paint", 1)), paint.tf), paint.fx)

writePath(b, path) == writeUInt(b, ItemWord("path", path))
writeTextBlob(b, blob) == writeUInt(b, ItemWord("textblob", blob))
writeImage(b, img) == writeUInt(b, ItemWord("image", img))

\* writeByteArray: the length, then the bytes padded to a multiple of four.
Pad4(bytes) == bytes \o [i \in 1..((4 - (Len(bytes) % 4)) % 4) |-> 0]
writeByteArray(b, bytes) ==
    [b EXCEPT !.bytes = @ \o write32(Len(bytes)) \o Pad4(bytes)]
writeDataAsByteArray(b, bytes) == writeByteArray(b, bytes)

(***************************************************************************)
(* The encoder.  A picture is a record of its op data and resource arrays. *)
(***************************************************************************)
Picture(ops, paints, paths, blobs, verts, images, drawables, pictures) ==
    [fOpData |-> ops, fPaints |-> paints, fPaths |-> paths, fTextBlobs |-> blobs,
     fVertices |-> verts, fImages |-> images, fDrawables |-> drawables,
     fPictures |-> pictures]

\* A loop "for each x of items: b = Write(b, x)".
WriteEach(b, items, Write(_, _)) ==
    LET f[i \in 0..Len(items)] == IF i = 0 THEN b ELSE Write(f[i - 1], items[i])
    IN  f[Len(items)]

write_tag_size_buffer(b, tag, size) == writeUInt(writeUInt(b, tag), size)

writeVertices(b, vert) == writeDataAsByteArray(b, EncodeVertices(vert))

flattenPaints(b, P) ==
    IF Len(P.fPaints) > 0
    THEN WriteEach(write_tag_size_buffer(b, SK_PICT_PAINT_BUFFER_TAG, Len(P.fPaints)),
                   P.fPaints, writePaint)
    ELSE b

\* The PATH_BUFFER section without its count word.
flattenPaths_uncounted(b, P) ==
    IF Len(P.fPaths) > 0
    THEN WriteEach(write_tag_size_buffer(b, SK_PICT_PATH_BUFFER_TAG, Len(P.fPaths)),
                   P.fPaths, writePath)
    ELSE b

flattenPaths(b, P) ==
    IF Len(P.fPaths) > 0
    THEN WriteEach(writeUInt(write_tag_size_buffer(b, SK_PICT_PATH_BUFFER_TAG,
                                                   Len(P.fPaths)),
                             Len(P.fPaths)),
                   P.fPaths, writePath)
    ELSE b

flattenTextBlobs(b, P) ==
    IF P.fTextBlobs # << >>
    THEN WriteEach(write_tag_size_buffer(b, SK_PICT_TEXTBLOB_BUFFER_TAG,
                                         Len(P.fTextBlobs)),
                   P.fTextBlobs, writeTextBlob)
    ELSE b

flattenVertices(b, P) ==
    IF P.fVertices # << >>
    THEN WriteEach(write_tag_size_buffer(b, SK_PICT_VERTICES_BUFFER_TAG,
                                         Len(P.fVertices)),
                   P.fVertices, writeVertices)
    ELSE b

flattenImages(b, P) ==
    IF P.fImages # << >>
    THEN WriteEach(write_tag_size_buffer(b, SK_PICT_IMAGE_BUFFER_TAG, Len(P.fImages)),
                   P.fImages, writeImage)
    ELSE b

flattenToBuffer(b, P) ==
    flattenImages(flattenVertices(flattenTextBlobs(flattenPaths(flattenPaints(b, P), P),
                                                   P), P), P)

\* compute_chunk_size: 4 for the count, then per factory the packed length of
\* its name and the name (a null or empty name: the packed length of 0).
\* A size that counts one byte for the length of every name.
compute_chunk_size_byte(array) ==
    LET f[i \in 0..Len(array)] ==
            IF i = 0 THEN 4
            ELSE LET name == FactoryToName(array[i])
                 IN  IF name = None \/ name[1] = << >> THEN f[i - 1] + 1
                     ELSE f[i - 1] + 1 + strlen(name[1])
    IN  f[Len(array)]

compute_chunk_size(array) ==
    LET f[i \in 0..Len(array)] ==
            IF i = 0 THEN 4
            ELSE LET name == FactoryToName(array[i])
                 IN  IF name = None \/ name[1] = << >>
                     THEN f[i - 1] + SizeOfPackedUInt(0)
                     ELSE f[i - 1] + SizeOfPackedUInt(strlen(name[1])) + strlen(name[1])
    IN  f[Len(array)]

WriteFactoryNames(array) ==
    LET f[i \in 0..Len(array)] ==
            IF i = 0 THEN << >>
            ELSE LET name == FactoryToName(array[i])
                 IN  IF name = None \/ name[1] = << >>
                     THEN f[i - 1] \o writePackedUInt(0)
                     ELSE f[i - 1] \o writePackedUInt(strlen(name[1])) \o name[1]
    IN  f[Len(array)]

WriteFactories(rec) ==
    write_tag_size(SK_PICT_FACTORY_TAG, compute_chunk_size(rec))
        \o write32(Len(rec)) \o WriteFactoryNames(rec)

\* A writer that leaves the section of an empty set out.
WriteTypefaces_nonempty(rec) ==
    LET f[i \in 0..Len(rec)] ==
            IF i = 0 THEN write_tag_size(SK_PICT_TYPEFACE_TAG, Len(rec))
            ELSE f[i - 1] \o SerializeTypeface(rec[i])
    IN  IF rec = << >> THEN << >> ELSE f[Len(rec)]

WriteTypefaces(rec) ==
    LET f[i \in 0..Len(rec)] ==
            IF i = 0 THEN write_tag_size(SK_PICT_TYPEFACE_TAG, Len(rec))
            ELSE f[i - 1] \o SerializeTypeface(rec[i])
    IN  f[Len(rec)]

\* serialize, lines 179-180: the READER section.
serialize_reader(P) ==
    write_tag_size(SK_PICT_READER_TAG, Len(P.fOpData)) \o P.fOpData

\* A scratch buffer that records typefaces in a set of its own.
serialize_flatten_local(P, typefaceSet) ==
    flattenToBuffer(WriteBuffer(<< >>, << >>, << >>), P)

\* serialize, lines 188-193: the scratch buffer with its two recorders.
serialize_flatten(P, typefaceSet) ==
    flattenToBuffer(WriteBuffer(<< >>, << >>, typefaceSet), P)

\* serialize, lines 215-216: the BUFFER_SIZE section.
serialize_buffer(buffer) ==
    write_tag_size(SK_PICT_BUFFER_SIZE_TAG, Len(buffer.bytes)) \o buffer.bytes

RECURSIVE serialize(_, _)
RECURSIVE serialize_dummy(_, _)
RECURSIVE serialize_pictures(_, _)

\* SkPicture::serialize(stream, procs, typefaceSet) of a sub-picture: the
\* archive of its SkPictureData.
SkPicture_serialize(pic, typefaceSet) == serialize(pic, Some(typefaceSet))

\* A serialize without the pass over the sub-pictures into DevNull.
serialize_dummy_skipped(P, typefaceSet) == typefaceSet

\* serialize, lines 203-205: every sub-picture is serialized into DevNull; what
\* is kept is the typeface set.
serialize_dummy(P, typefaceSet) ==
    LET f[i \in 0..Len(P.fPictures)] ==
            IF i = 0 THEN typefaceSet
            ELSE SkPicture_serialize(P.fPictures[i], f[i - 1]).typefaceSet
    IN  f[Len(P.fPictures)]

\* serialize, lines 219-224: the PICTURE section (nothing without sub-pictures).
serialize_pictures(P, typefaceSet) ==
    LET f[i \in 0..Len(P.fPictures)] ==
            IF i = 0
            THEN [out |-> write_tag_size(SK_PICT_PICTURE_TAG, Len(P.fPictures)),
                  typefaceSet |-> typefaceSet]
            ELSE LET r == SkPicture_serialize(P.fPictures[i], f[i - 1].typefaceSet)
                 IN  [out |-> f[i - 1].out \o r.out, typefaceSet |-> r.typefaceSet]
    IN  IF P.fPictures # << >> THEN f[Len(P.fPictures)]
        ELSE [out |-> << >>, typefaceSet |-> typefaceSet]

\* A serialize that writes the buffer before the factories and typefaces.
serialize_buffer_first(P, topLevelTypeFaceSet) ==
    LET isLocal == topLevelTypeFaceSet = None
        buffer == serialize_flatten(P, IF isLocal THEN << >> ELSE topLevelTypeFaceSet[1])
        dummied == serialize_dummy(P, buffer.tfSet)
        pics == serialize_pictures(P, dummied)
    IN  [out |-> serialize_reader(P)
                   \o serialize_buffer(buffer)
                   \o WriteFactories(buffer.factSet)
                   \o (IF isLocal THEN WriteTypefaces(dummied) ELSE << >>)
                   \o pics.out
                   \o write32(SK_PICT_EOF_TAG),
         typefaceSet |-> pics.typefaceSet]

\* SkPictureData::serialize(stream, procs, topLevelTypeFaceSet): the bytes
\* written to the stream and the typeface set the call leaves behind.
serialize(P, topLevelTypeFaceSet) ==
    LET isLocal == topLevelTypeFaceSet = None
        buffer == serialize_flatten(P, IF isLocal THEN << >> ELSE topLevelTypeFaceSet[1])
        dummied == serialize_dummy(P, buffer.tfSet)
        pics == serialize_pictures(P, dummied)
    IN  [out |-> serialize_reader(P)
                   \o WriteFactories(buffer.factSet)
                   \o (IF isLocal THEN WriteTypefaces(dummied) ELSE << >>)
                   \o serialize_buffer(buffer)
                   \o pics.out
                   \o write32(SK_PICT_EOF_TAG),
         typefaceSet |-> pics.typefaceSet]

(***************************************************************************)
(* SkReadBuffer: a cursor over the bytes with the sticky validity flag and *)
(* the two playback tables.  An invalid buffer reads 0 and is at its end.  *)
(***************************************************************************)
\* SkTFitsIn<int>(v) for a uint32_t v
SkTFitsIn_int(v) == v >= 0
\* SkToInt(v): the int with the bits of the uint32_t v
SkToInt(v) == v

ReadBuffer(bytes, factories, typefaces) ==
    [bytes |-> bytes, pos |-> 0, valid |-> TRUE,
     factories |-> factories, typefaces |-> typefaces]

available(rb) == Len(rb.bytes) - rb.pos
eof(rb) == rb.pos >= Len(rb.bytes)
isValid(rb) == rb.valid
setInvalid(rb) == [rb EXCEPT !.valid = FALSE, !.pos = Len(rb.bytes)]
\* validate(cond): the buffer afterwards; the call returns its validity.
validate(rb, cond) == IF cond THEN rb ELSE setInvalid(rb)

readUInt(rb) ==
    IF rb.valid /\ available(rb) >= 4
    THEN [rb |-> [rb EXCEPT !.pos = @ + 4], val |-> word_at(rb.bytes, rb.pos)]
    ELSE [rb |-> setInvalid(rb), val |-> 0]

\* readTypeface: 0 is no typeface, i > 0 the entry i of the typeface playback.
readTypeface(rb) ==
    LET r == readUInt(rb)
        b == validate(r.rb, SkTFitsIn_int(r.val) /\ r.val <= Len(rb.typefaces))
    IN  [rb |-> b, val |-> IF b.valid /\ r.val > 0 THEN rb.typefaces[r.val] ELSE 0]

\* readFlattenable's factory: 0 is null, i > 0 the entry i of the factory
\* playback, which must hold a factory.
readFactory(rb) ==
    LET r == readUInt(rb)
        b == validate(r.rb, SkTFitsIn_int(r.val) /\ r.val <= Len(rb.factories)
                            /\ (r.val > 0 => rb.factories[r.val] # 0))
    IN  [rb |-> b, val |-> IF b.valid /\ r.val > 0 THEN rb.factories[r.val] ELSE 0]

DefaultPaint == [tf |-> 0, fx |-> 0]

\* readPaint(&paint): the buffer and the paint left in *paint; the call
\* returns the buffer's validity.
readPaint(rb) ==
    LET w == readUInt(rb)
        b1 == validate(w.rb, IsItemWord("paint", w.val))
        t == readTypeface(b1)
        f == readFactory(t.rb)
    IN  [rb |-> f.rb,
         val |-> IF f.rb.valid THEN [tf |-> t.val, fx |-> f.val] ELSE DefaultPaint]

\* An object made of one word: a path, a text blob, an image.
readItem(rb, kind) ==
    LET w == readUInt(rb)
        b == validate(w.rb, IsItemWord(kind, w.val))
    IN  [rb |-> b, val |-> IF b.valid THEN Some(w.val % 256) ELSE None]

\* readPath(&path): an invalid buffer leaves the path empty (0).
readPath(rb) ==
    LET r == readItem(rb, "path")
    IN  [rb |-> r.rb, val |-> IF r.val = None THEN 0 ELSE r.val[1]]

SkAlign4(n) == ((n + 3) \div 4) * 4

\* readByteArrayAsData: a length, then the bytes padded to a multiple of four.
readByteArrayAsData(rb) ==
    LET n == readUInt(rb)
        b == validate(n.rb, n.val >= 0 /\ n.val <= available(n.rb)
                            /\ SkAlign4(n.val) <= available(n.rb))
    IN  IF b.valid
        THEN [rb |-> [b EXCEPT !.pos = @ + SkAlign4(n.val)],
              val |-> Some(SubSeq(b.bytes, b.pos + 1, b.pos + n.val))]
        ELSE [rb |-> b, val |-> None]

\* readByteArray(dst, size): as above, and the length read must be size.
readByteArray(rb, size) ==
    LET n == readUInt(rb)
        b == validate(n.rb, n.val = size /\ n.val >= 0 /\ n.val <= available(n.rb)
                            /\ SkAlign4(n.val) <= available(n.rb))
    IN  IF b.valid
        THEN [rb |-> [b EXCEPT !.pos = @ + SkAlign4(n.val)],
              val |-> Some(SubSeq(b.bytes, b.pos + 1, b.pos + n.val))]
        ELSE [rb |-> b, val |-> None]

\* validateCanReadN<uint8_t>(n)
validateCanReadN(rb, n) == validate(rb, n >= 0 /\ n <= available(rb))

create_image_from_buffer(rb) == readItem(rb, "image")
SkTextBlob_MakeFromBuffer(rb) == readItem(rb, "textblob")

create_vertices_from_buffer(rb) ==
    LET d == readByteArrayAsData(rb)
    IN  [rb |-> d.rb, val |-> IF d.val = None THEN None ELSE DecodeVertices(d.val[1])]

\* readFlattenable(kSkDrawable_Type): the factory, which must create drawables,
\* then the drawable.
create_drawable_from_buffer(rb) ==
    LET f == readFactory(rb)
        b == validate(f.rb, f.val = 2)
    IN  IF b.valid THEN readItem(b, "drawable") ELSE [rb |-> b, val |-> None]

(***************************************************************************)
(* The decoder.  SkPictureData(info): everything empty, no op data, no     *)
(* factory playback.  sections is the record of the outer sections the     *)
(* picture dispatched (tag, the handler's result, the number of inner tags *)
(* it dispatched); asserts is the set of SkASSERTs whose condition was     *)
(* false; allocs is the record of the allocations whose size was read from *)
(* the input (what for, the size asked for, the bytes the input had left). *)
(* No handler reads any of the three.                                      *)
(***************************************************************************)
NewPictureData ==
    [fOpData |-> None, fFactoryPlayback |-> None, fTFPlayback |-> << >>,
     fPaints |-> << >>, fPaths |-> << >>, fTextBlobs |-> << >>, fVertices |-> << >>,
     fImages |-> << >>, fDrawables |-> << >>, fPictures |-> << >>,
     sections |-> << >>, asserts |-> {}, allocs |-> << >>]

\* An allocation of size units for what, made with remaining bytes of input
\* unread.
Allocated(data, what, size, remaining) ==
    [data EXCEPT !.allocs =
         Append(@, [what |-> what, size |-> size, remaining |-> remaining])]

\* Every operator below takes the result of the call it continues as an
\* argument, so that no call is written twice.
RECURSIVE read_paints(_, _, _, _)
RECURSIVE read_paths(_, _, _, _)
RECURSIVE new_array_loop(_, _, _, _, _)
RECURSIVE parseBufferTag(_, _, _, _)
RECURSIVE parseBuffer(_, _)

\* parseBufferTag, lines 401-405: each paint is pushed, then read into (r is
\* what readPaint made of the pushed paint).
read_paints_push(data, r, i, count) ==
    IF ~isValid(r.rb)
    THEN [data |-> [data EXCEPT !.fPaints = Append(@, r.val)], rb |-> r.rb]
    ELSE read_paints([data EXCEPT !.fPaints = Append(@, r.val)], r.rb, i + 1, count)

read_paints(data, rb, i, count) ==
    IF i >= count THEN [data |-> data, rb |-> rb]
    ELSE read_paints_push(data, readPaint(rb), i, count)

\* parseBufferTag, lines 413-418.
read_paths_push(data, r, i, count) ==
    IF ~isValid(r.rb)
    THEN [data |-> [data EXCEPT !.fPaths = Append(@, r.val)], rb |-> r.rb]
    ELSE read_paths([data EXCEPT !.fPaths = Append(@, r.val)], r.rb, i + 1, count)

read_paths(data, rb, i, count) ==
    IF i >= count THEN [data |-> data, rb |-> rb]
    ELSE read_paths_push(data, readPath(rb), i, count)

\* What CreateFromBuffer returns for the result r of parseBuffer.
CreateFromBuffer_result(r) == [rb |-> r.rb, val |-> IF r.ok THEN Some(r.data) ELSE None]

\* SkPictureData::CreateFromBuffer(buffer, info): the picture, if any.
CreateFromBuffer(rb) == CreateFromBuffer_result(parseBuffer(NewPictureData, rb))

\* SkPicturePriv::MakeFromBuffer(buffer): the picture of its SkPictureData.
SkPicturePriv_MakeFromBuffer(rb) == CreateFromBuffer(rb)

\* The factory argument of new_array_from_buffer.
array_factory(kind, rb) ==
    CASE kind = "textblob" -> SkTextBlob_MakeFromBuffer(rb)
      [] kind = "vertices" -> create_vertices_from_buffer(rb)
      [] kind = "image" -> create_image_from_buffer(rb)
      [] kind = "drawable" -> create_drawable_from_buffer(rb)
      [] kind = "picture" -> SkPicturePriv_MakeFromBuffer(rb)

\* A loop that keeps the items read before the one that failed.
new_array_push_kept(obj, inCount, array, kind, i) ==
    IF ~isValid(validate(obj.rb, obj.val # None))
    THEN [rb |-> validate(obj.rb, obj.val # None), array |-> array, ok |-> FALSE]
    ELSE new_array_loop(obj.rb, inCount, Append(array, obj.val[1]), kind, i + 1)

\* new_array_from_buffer, lines 382-387: obj is what the factory returned.
new_array_push(obj, inCount, array, kind, i) ==
    IF ~isValid(validate(obj.rb, obj.val # None))
    THEN [rb |-> validate(obj.rb, obj.val # None), array |-> << >>, ok |-> FALSE]
    ELSE new_array_loop(obj.rb, inCount, Append(array, obj.val[1]), kind, i + 1)

\* new_array_from_buffer, lines 379-390.
new_array_loop(rb, inCount, array, kind, i) ==
    IF ~ULess(i, inCount) THEN [rb |-> rb, array |-> array, ok |-> TRUE]
    ELSE new_array_push(array_factory(kind, rb), inCount, array, kind, i)

new_array_from_buffer(rb, inCount, array, kind) ==
    IF ~isValid(validate(rb, array = << >> /\ SkTFitsIn_int(inCount)))
    THEN [rb |-> validate(rb, array = << >> /\ SkTFitsIn_int(inCount)),
          array |-> array, ok |-> FALSE]
    ELSE IF inCount = 0 THEN [rb |-> rb, array |-> array, ok |-> TRUE]
    ELSE new_array_loop(rb, inCount, array, kind, 0)

\* parseBufferTag, lines 429-442: the READER section of a buffer.
parseBufferReader(data, rb, size) ==
    LET b1 == validateCanReadN(rb, size)
        d == Allocated(data, "op data", size, available(rb))
        r == readByteArray(b1, size)
        b2 == validate(r.rb, data.fOpData = None)
    IN  IF ~isValid(b1) THEN [data |-> data, rb |-> b1]
        ELSE IF r.val = None THEN [data |-> d, rb |-> r.rb]
        ELSE IF ~isValid(b2) THEN [data |-> d, rb |-> b2]
        ELSE [data |-> [d EXCEPT !.fOpData = r.val], rb |-> b2]

\* parseBufferTag, lines 407-419: the PATH_BUFFER section.
\* A PATH_BUFFER handler that reads as many paths as the section size says.
parseBufferPaths_sized(data, rb, size) ==
    IF ULess(0, size)
    THEN LET c == readUInt(rb)
             b == validate(c.rb, SkToInt(c.val) >= 0)
         IN  IF ~isValid(b) THEN [data |-> data, rb |-> b]
             ELSE read_paths(data, b, 0, SkToInt(size))
    ELSE [data |-> data, rb |-> rb]

\* size is a uint32_t: size > 0 is size # 0.
parseBufferPaths(data, rb, size) ==
    IF ULess(0, size)
    THEN LET c == readUInt(rb)
             b == validate(c.rb, SkToInt(c.val) >= 0)
         IN  IF ~isValid(b) THEN [data |-> data, rb |-> b]
             ELSE read_paths(data, b, 0, SkToInt(c.val))
    ELSE [data |-> data, rb |-> rb]

\* parseBufferTag, lines 395-406: the PAINT_BUFFER section.
parseBufferPaints(data, rb, size) ==
    IF ~isValid(validate(rb, SkTFitsIn_int(size)))
    THEN [data |-> data, rb |-> validate(rb, SkTFitsIn_int(size))]
    ELSE read_paints(data, rb, 0, SkToInt(size))

\* The array a call of new_array_from_buffer filled (r is what it returned).
array_filled(data, field, r) == [data |-> [data EXCEPT ![field] = r.array], rb |-> r.rb]

parseBufferTag(data, rb, tag, size) ==
    CASE tag = SK_PICT_PAINT_BUFFER_TAG -> parseBufferPaints(data, rb, size)
      [] tag = SK_PICT_PATH_BUFFER_TAG -> parseBufferPaths(data, rb, size)
      [] tag = SK_PICT_TEXTBLOB_BUFFER_TAG ->
            array_filled(data, "fTextBlobs",
                         new_array_from_buffer(rb, size, data.fTextBlobs, "textblob"))
      [] tag = SK_PICT_VERTICES_BUFFER_TAG ->
            array_filled(data, "fVertices",
                         new_array_from_buffer(rb, size, data.fVertices, "vertices"))
      [] tag = SK_PICT_IMAGE_BUFFER_TAG ->
            array_filled(data, "fImages",
                         new_array_from_buffer(rb, size, data.fImages, "image"))
      [] tag = SK_PICT_READER_TAG -> parseBufferReader(data, rb, size)
      [] tag = SK_PICT_PICTURE_TAG ->
            array_filled(data, "fPictures",
                         new_array_from_buffer(rb, size, data.fPictures, "picture"))
      [] tag = SK_PICT_DRAWABLE_TAG ->
            array_filled(data, "fDrawables",
                         new_array_from_buffer(rb, size, data.fDrawables, "drawable"))
      [] OTHER -> [data |-> data, rb |-> validate(rb, FALSE)]

\* One turn of the loop of parseBuffer, lines 501-507: "break" where the loop
\* is left, else "continue".
parseBuffer_handled(r) == [status |-> "continue", data |-> r.data, rb |-> r.rb]

parseBuffer_dispatch(data, tag, size) ==
    parseBuffer_handled(parseBufferTag(data, size.rb, tag, size.val))

parseBuffer_tag(data, tag) ==
    IF tag.val = SK_PICT_EOF_TAG THEN [status |-> "break", data |-> data, rb |-> tag.rb]
    ELSE parseBuffer_dispatch(data, tag.val, readUInt(tag.rb))

parseBuffer_step(data, rb) ==
    IF ~isValid(rb) THEN [status |-> "break", data |-> data, rb |-> rb]
    ELSE parseBuffer_tag(data, readUInt(rb))

\* parseBuffer, lines 510-515: op data is required.
parseBuffer_end(data, rb) ==
    [ok |-> isValid(validate(rb, data.fOpData # None)), data |-> data,
     rb |-> validate(rb, data.fOpData # None)]

parseBuffer_next(r) ==
    IF r.status = "continue" THEN parseBuffer(r.data, r.rb)
    ELSE parseBuffer_end(r.data, r.rb)

parseBuffer(data, rb) == parseBuffer_next(parseBuffer_step(data, rb))

(***************************************************************************)
(* The stream decoder.  topLevelTFPlayback is None in the outermost call   *)
(* (CreateFromStream then points it at the new picture's own fTFPlayback)  *)
(* and Some(table) in the call for a sub-picture.                          *)
(***************************************************************************)
RECURSIVE read_factories(_, _, _, _, _)
RECURSIVE read_typefaces(_, _, _, _, _)
RECURSIVE read_pictures(_, _, _, _, _, _)
RECURSIVE buffer_loop(_, _, _)
RECURSIVE parseStreamTag(_, _, _, _, _, _)
RECURSIVE parseStream(_, _, _, _)

\* *topLevelTFPlayback as a handler of this picture sees it.
TopLevelTFPlayback(data, top) == IF top = None THEN data.fTFPlayback ELSE top[1]

\* What CreateFromStream returns for the result r of parseStream.
CreateFromStream_result(r) == [val |-> IF r.ok THEN Some(r.data) ELSE None, pos |-> r.pos]

\* SkPictureData::CreateFromStream(stream, info, procs, topLevelTFPlayback).
CreateFromStream(s, pos, top) ==
    CreateFromStream_result(parseStream(NewPictureData, s, pos, top))

\* SkPicture::MakeFromStream(stream, procs, typefaces): the picture of its
\* SkPictureData.
SkPicture_MakeFromStream(s, pos, typefaces) == CreateFromStream(s, pos, Some(typefaces))

\* parseStreamTag, lines 286-290: str is what was read of the name.
read_factories_name(s, str, len, i, size, base) ==
    IF Len(str.bytes) # len THEN [ok |-> FALSE, base |-> base, pos |-> str.pos]
    ELSE read_factories(s, str.pos, i + 1, size, Append(base, NameToFactory(str.bytes)))

\* parseStreamTag, line 285: len is what readPackedUInt returned.
read_factories_len(s, len, i, size, base) ==
    IF ~len.ok THEN [ok |-> FALSE, base |-> base, pos |-> len.pos]
    ELSE read_factories_name(s, read_bytes(s, len.pos, len.val), len.val, i, size, base)

\* parseStreamTag, lines 282-291: the names of the FACTORY section.
read_factories(s, pos, i, size, base) ==
    IF ~ULess(i, size) THEN [ok |-> TRUE, base |-> base, pos |-> pos]
    ELSE read_factories_len(s, readPackedUInt(s, pos), i, size, base)

\* A loop that leaves out the typefaces that failed to deserialize.
read_typefaces_set_skipped(s, tf, i, count, playback) ==
    read_typefaces(s, tf.pos, i + 1, count,
                   IF tf.tf = None THEN playback ELSE Append(playback, tf.tf[1]))

\* parseStreamTag, lines 299-304: a typeface that failed to deserialize is
\* replaced by the default typeface.
read_typefaces_set(s, tf, i, count, playback) ==
    read_typefaces(s, tf.pos, i + 1, count,
                   Append(playback, IF tf.tf = None THEN DefaultTypeface ELSE tf.tf[1]))

\* parseStreamTag, lines 297-305.
read_typefaces(s, pos, i, count, playback) ==
    IF i >= count THEN [playback |-> playback, pos |-> pos]
    ELSE read_typefaces_set(s, MakeDeserialize(s, pos), i, count, playback)

\* parseStreamTag, lines 313-316: pic is what MakeFromStream returned.
read_pictures_push(s, pic, i, size, pictures, topLevelTFPlayback) ==
    IF pic.val = None THEN [ok |-> FALSE, pictures |-> pictures, pos |-> pic.pos]
    ELSE read_pictures(s, pic.pos, i + 1, size, Append(pictures, pic.val[1]),
                       topLevelTFPlayback)

\* parseStreamTag, lines 311-317.
read_pictures(s, pos, i, size, pictures, topLevelTFPlayback) ==
    IF ~ULess(i, size) THEN [ok |-> TRUE, pictures |-> pictures, pos |-> pos]
    ELSE read_pictures_push(s, SkPicture_MakeFromStream(s, pos, topLevelTFPlayback),
                            i, size, pictures, topLevelTFPlayback)

\* parseStreamTag, lines 342-346: the inner loop; n counts the tags dispatched.
buffer_loop_next(r, n) == buffer_loop(r.data, r.rb, n + 1)

buffer_loop_dispatch(data, tag, size, n) ==
    buffer_loop_next(parseBufferTag(data, size.rb, tag, size.val), n)

buffer_loop_tag(data, tag, n) == buffer_loop_dispatch(data, tag.val, readUInt(tag.rb), n)

buffer_loop(data, rb, n) ==
    IF ~eof(rb) /\ isValid(rb) THEN buffer_loop_tag(data, readUInt(rb), n)
    ELSE [data |-> data, rb |-> rb, n |-> n]

Failed(data, pos) == [ok |-> FALSE, data |-> data, pos |-> pos, inner |-> 0]
Succeeded(data, pos) == [ok |-> TRUE, data |-> data, pos |-> pos, inner |-> 0]

\* The SkASSERT(cond) named what: in the release build a record, no more.
SkASSERT(data, cond, what) ==
    IF cond THEN data ELSE [data EXCEPT !.asserts = @ \cup {what}]

\* A READER handler that keeps none of the bytes it read.
parseStreamReader_made_empty(data, r, size) ==
    IF Len(r.bytes) # size THEN Failed([data EXCEPT !.fOpData = None], r.pos)
    ELSE Succeeded([data EXCEPT !.fOpData = Some(<< >>)], r.pos)

\* case SK_PICT_READER_TAG: r is what was read of the size bytes.
parseStreamReader_made(data, r, size) ==
    IF Len(r.bytes) # size THEN Failed([data EXCEPT !.fOpData = None], r.pos)
    ELSE Succeeded([data EXCEPT !.fOpData = Some(r.bytes)], r.pos)

parseStreamReader(data, s, pos, size) ==
    parseStreamReader_made(
        Allocated(SkASSERT(data, data.fOpData = None, "nullptr == fOpData"),
                  "op data", size, Len(s) - pos),
        read_bytes(s, pos, size), size)

\* The value of the SkDEBUGCODE local haveBuffer where FACTORY and TYPEFACE
\* assert on it: line 268 initialises it in every call.
haveBuffer == FALSE

\* case SK_PICT_FACTORY_TAG: r is what the loop over the names returned.
parseStreamFactory_names(data, r) ==
    IF ~r.ok THEN Failed([data EXCEPT !.fFactoryPlayback = Some(r.base)], r.pos)
    ELSE Succeeded([data EXCEPT !.fFactoryPlayback = Some(r.base)], r.pos)

parseStreamFactory_count(data, s, size) ==
    IF ~size.ok THEN Failed(data, size.pos)
    ELSE parseStreamFactory_names(
             Allocated(data, "factory playback", size.val, Len(s) - size.pos),
             read_factories(s, size.pos, 0, size.val, << >>))

parseStreamFactory(data, s, pos) ==
    parseStreamFactory_count(SkASSERT(data, ~haveBuffer, "!haveBuffer"), s, readU32(s, pos))

\* case SK_PICT_TYPEFACE_TAG: r is what the loop over the typefaces returned.
parseStreamTypeface_set(data, r) == Succeeded([data EXCEPT !.fTFPlayback = r.playback], r.pos)

parseStreamTypeface(data, s, pos, size) ==
    parseStreamTypeface_set(
        Allocated(SkASSERT(SkASSERT(data, ~haveBuffer, "!haveBuffer"),
                           SkTFitsIn_int(size), "SkToInt"),
                  "typeface playback", SkToInt(size), Len(s) - pos),
        read_typefaces(s, pos, 0, SkToInt(size), << >>))

\* case SK_PICT_PICTURE_TAG: r is what the loop over the sub-pictures returned.
parseStreamPictures_read(data, r) ==
    [ok |-> r.ok, data |-> [data EXCEPT !.fPictures = r.pictures], pos |-> r.pos,
     inner |-> 0]

parseStreamPictures(data, s, pos, size, top) ==
    parseStreamPictures_read(
        Allocated(SkASSERT(data, data.fPictures = << >>, "fPictures.empty()"),
                  "pictures", SkToInt(size), Len(s) - pos),
        read_pictures(s, pos, 0, size, data.fPictures, TopLevelTFPlayback(data, top)))

\* case SK_PICT_BUFFER_SIZE_TAG, lines 347-351: r is what the inner loop left.
parseStreamBuffer_parsed(r, pos) ==
    [ok |-> isValid(r.rb), data |-> r.data, pos |-> pos, inner |-> r.n]

\* A BUFFER_SIZE handler that does not ask for the factory playback.
parseStreamBuffer_read_unchecked(data, storage, size, top) ==
    IF Len(storage.bytes) # size THEN Failed(data, storage.pos)
    ELSE parseStreamBuffer_parsed(
             buffer_loop(data,
                         ReadBuffer(storage.bytes,
                                    IF data.fFactoryPlayback = None THEN << >>
                                    ELSE data.fFactoryPlayback[1],
                                    IF Len(data.fTFPlayback) > 0 THEN data.fTFPlayback
                                    ELSE TopLevelTFPlayback(data, top)),
                         0),
             storage.pos)

\* lines 325-346: storage is what was read of the size bytes.
\* A BUFFER_SIZE handler that gives every buffer the top-level playback.
parseStreamBuffer_read_top(data, storage, size, top) ==
    IF Len(storage.bytes) # size THEN Failed(data, storage.pos)
    ELSE IF data.fFactoryPlayback = None THEN Failed(data, storage.pos)
    ELSE parseStreamBuffer_parsed(
             buffer_loop(data,
                         ReadBuffer(storage.bytes, data.fFactoryPlayback[1],
                                    TopLevelTFPlayback(data, top)),
                         0),
             storage.pos)

parseStreamBuffer_read(data, storage, size, top) ==
    IF Len(storage.bytes) # size THEN Failed(data, storage.pos)
    ELSE IF data.fFactoryPlayback = None THEN Failed(data, storage.pos)
    ELSE parseStreamBuffer_parsed(
             buffer_loop(data,
                         ReadBuffer(storage.bytes, data.fFactoryPlayback[1],
                                    IF Len(data.fTFPlayback) > 0 THEN data.fTFPlayback
                                    ELSE TopLevelTFPlayback(data, top)),
                         0),
             storage.pos)

parseStreamBuffer(data, s, pos, size, top) ==
    parseStreamBuffer_read(Allocated(data, "storage", size, Len(s) - pos),
                           read_bytes(s, pos, size), size, top)

\* A switch whose default returns false.
parseStreamTag_strict(data, s, pos, tag, size, top) ==
    CASE tag = SK_PICT_READER_TAG -> parseStreamReader(data, s, pos, size)
      [] tag = SK_PICT_FACTORY_TAG -> parseStreamFactory(data, s, pos)
      [] tag = SK_PICT_TYPEFACE_TAG -> parseStreamTypeface(data, s, pos, size)
      [] tag = SK_PICT_PICTURE_TAG -> parseStreamPictures(data, s, pos, size, top)
      [] tag = SK_PICT_BUFFER_SIZE_TAG -> parseStreamBuffer(data, s, pos, size, top)
      [] OTHER -> Failed(data, pos)

parseStreamTag(data, s, pos, tag, size, top) ==
    CASE tag = SK_PICT_READER_TAG -> parseStreamReader(data, s, pos, size)
      [] tag = SK_PICT_FACTORY_TAG -> parseStreamFactory(data, s, pos)
      [] tag = SK_PICT_TYPEFACE_TAG -> parseStreamTypeface(data, s, pos, size)
      [] tag = SK_PICT_PICTURE_TAG -> parseStreamPictures(data, s, pos, size, top)
      [] tag = SK_PICT_BUFFER_SIZE_TAG -> parseStreamBuffer(data, s, pos, size, top)
      [] OTHER -> Succeeded(data, pos)

\* A loop that goes on after a handler returned false.
parseStream_handled_lenient(r, tag) ==
    [status |-> "continue",
     data |-> [r.data EXCEPT !.sections =
                   Append(@, [tag |-> tag, ok |-> r.ok, inner |-> r.inner])],
     pos |-> r.pos]

\* One turn of the loop of parseStream, lines 485-495: "break" at EOF_TAG,
\* "fail" where the loop returns false, else "continue".  r is what
\* parseStreamTag returned.
parseStream_handled(r, tag) ==
    [status |-> IF r.ok THEN "continue" ELSE "fail",
     data |-> [r.data EXCEPT !.sections =
                   Append(@, [tag |-> tag, ok |-> r.ok, inner |-> r.inner])],
     pos |-> r.pos]

parseStream_size(data, s, tag, size, top) ==
    IF ~size.ok THEN [status |-> "fail", data |-> data, pos |-> size.pos]
    ELSE parseStream_handled(parseStreamTag(data, s, size.pos, tag, size.val, top), tag)

\* A loop that takes the end of the stream for EOF_TAG.
parseStream_tag_eof_at_end(data, s, tag, top) ==
    IF ~tag.ok \/ tag.val = SK_PICT_EOF_TAG
    THEN [status |-> "break", data |-> data, pos |-> tag.pos]
    ELSE parseStream_size(data, s, tag.val, readU32(s, tag.pos), top)

parseStream_tag(data, s, tag, top) ==
    IF ~tag.ok THEN [status |-> "fail", data |-> data, pos |-> tag.pos]
    ELSE IF tag.val = SK_PICT_EOF_TAG
    THEN [status |-> "break", data |-> data, pos |-> tag.pos]
    ELSE parseStream_size(data, s, tag.val, readU32(s, tag.pos), top)

parseStream_step(data, s, pos, top) == parseStream_tag(data, s, readU32(s, pos), top)

parseStream_next(r, s, top) ==
    IF r.status = "continue" THEN parseStream(r.data, s, r.pos, top)
    ELSE [ok |-> r.status = "break", data |-> r.data, pos |-> r.pos]

parseStream(data, s, pos, top) == parseStream_next(parseStream_step(data, s, pos, top), s, top)

(***************************************************************************)
(* The pictures that are serialized.                                       *)
(***************************************************************************)
Paints == [tf : 0..NumTypefaces, fx : {0, 1}]
TypefacePaints == {<< >>} \cup {<< [tf |-> t, fx |-> 0] >> : t \in 1..NumTypefaces}
PaintSeqs ==
    {<< >>} \cup {<< p >> : p \in Paints}
        \cup {<< [tf |-> 1, fx |-> 0], [tf |-> t, fx |-> 1] >> : t \in 1..NumTypefaces}

ResourceKits ==
    { [paths |-> << >>, blobs |-> << >>, verts |-> << >>, images |-> << >>],
      [paths |-> << 1, 2 >>, blobs |-> << >>, verts |-> << 3 >>, images |-> << >>],
      [paths |-> << >>, blobs |-> << 4 >>, verts |-> << >>, images |-> << 5, 6 >>],
      [paths |-> << 2 >>, blobs |-> << 1, 4 >>, verts |-> << 3, 1 >>, images |-> << 6 >>] }

\* Pictures without sub-pictures.
ResourcePictures ==
    { Picture(ops, ps, k.paths, k.blobs, k.verts, k.images, ds, << >>) :
        ops \in {<< >>, << 7, 9, 11 >>}, ps \in PaintSeqs, k \in ResourceKits,
        ds \in {<< >>, << 1 >>} }

LeafPictures ==
    { Picture(<< >>, ps, << >>, << >>, << >>, << >>, << >>, << >>) :
        ps \in TypefacePaints }

SubPictures ==
    { Picture(<< 5 >>, ps, << >>, << >>, << >>, << >>, << >>, subs) :
        ps \in TypefacePaints, subs \in {<< >>} \cup {<< l >> : l \in LeafPictures} }

\* Pictures with one or two sub-pictures, of which the first may have a
\* sub-picture of its own.
TreePictures ==
    { Picture(<< 7 >>, ps, << >>, << >>, << >>, << >>, << >>, subs) :
        ps \in TypefacePaints,
        subs \in {<< s >> : s \in SubPictures}
                    \cup {<< s, l >> : s \in SubPictures, l \in LeafPictures} }

Pictures == ResourcePictures \cup TreePictures

(***************************************************************************)
(* The state: one top-level call of serialize on pic, position epc, and    *)
(* one top-level call of CreateFromStream on stream, position dpc.         *)
(***************************************************************************)
VARIABLES
    pic,          \* the picture serialized
    epc,          \* where serialize stands
    out,          \* the bytes written to the output stream
    typefaceSet,  \* localTypefaceSet
    factSet,      \* factSet
    buffer,       \* the bytes of the scratch SkBinaryWriteBuffer
    emitted,      \* the tags that began the chunks written to the stream
    stream,       \* the bytes of the input stream
    pos,          \* the input stream's position
    data,         \* the SkPictureData under construction
    rb,           \* the SkReadBuffer CreateFromBuffer is called on
    dpc           \* "idle", "parsing", then "ok" (returned) or "null"

vars == << pic, epc, out, typefaceSet, factSet, buffer, emitted,
           stream, pos, data, rb, dpc >>
encoderVars == << pic, epc, out, typefaceSet, factSet, buffer, emitted >>
decoderVars == << stream, pos, data, rb, dpc >>

Emit(chunk) ==
    /\ out' = out \o chunk
    /\ emitted' = IF chunk = << >> THEN emitted ELSE Append(emitted, word_at(chunk, 0))

\* lines 179-180
SerializeReader ==
    /\ epc = "start"
    /\ Emit(serialize_reader(pic))
    /\ epc' = "reader"
    /\ UNCHANGED << pic, typefaceSet, factSet, buffer, decoderVars >>

\* lines 183-193
SerializeFlatten ==
    /\ epc = "reader"
    /\ LET b == serialize_flatten(pic, << >>)
       IN  /\ buffer' = b.bytes
           /\ factSet' = b.factSet
           /\ typefaceSet' = b.tfSet
    /\ epc' = "flattened"
    /\ UNCHANGED << pic, out, emitted, decoderVars >>

\* lines 197-205
SerializeDummy ==
    /\ epc = "flattened"
    /\ typefaceSet' = serialize_dummy(pic, typefaceSet)
    /\ epc' = "dummied"
    /\ UNCHANGED << pic, out, emitted, factSet, buffer, decoderVars >>

\* line 209
SerializeFactories ==
    /\ epc = "dummied"
    /\ Emit(WriteFactories(factSet))
    /\ epc' = "factories"
    /\ UNCHANGED << pic, typefaceSet, factSet, buffer, decoderVars >>

\* lines 210-212: the top-level call writes its local set.
SerializeTypefaces ==
    /\ epc = "factories"
    /\ Emit(WriteTypefaces(typefaceSet))
    /\ epc' = "typefaces"
    /\ UNCHANGED << pic, typefaceSet, factSet, buffer, decoderVars >>

\* lines 215-216
SerializeBuffer ==
    /\ epc = "typefaces"
    /\ Emit(serialize_buffer([bytes |-> buffer]))
    /\ epc' = "buffer"
    /\ UNCHANGED << pic, typefaceSet, factSet, buffer, decoderVars >>

\* lines 219-224
SerializePictures ==
    /\ epc = "buffer"
    /\ LET r == serialize_pictures(pic, typefaceSet)
       IN  /\ Emit(r.out)
           /\ typefaceSet' = r.typefaceSet
    /\ epc' = "pictures"
    /\ UNCHANGED << pic, factSet, buffer, decoderVars >>

\* line 226
SerializeEOF ==
    /\ epc = "pictures"
    /\ Emit(write32(SK_PICT_EOF_TAG))
    /\ epc' = "done"
    /\ UNCHANGED << pic, typefaceSet, factSet, buffer, decoderVars >>

\* The archive, or a prefix of it, is handed to CreateFromStream, lines 459-462.
OpenStream ==
    /\ epc = "done"
    /\ dpc = "idle"
    /\ \E n \in 0..Len(out) : stream' = SubSeq(out, 1, n)
    /\ pos' = 0
    /\ data' = NewPictureData
    /\ dpc' = "parsing"
    /\ UNCHANGED << rb, encoderVars >>

\* One turn of the loop of parseStream: r is what the turn made of the state.
ParseTurned(r) ==
    /\ data' = r.data
    /\ pos' = r.pos
    /\ dpc' = CASE r.status = "continue" -> "parsing"
                [] r.status = "break" -> "ok"
                [] r.status = "fail" -> "null"
    /\ UNCHANGED << stream, rb, encoderVars >>

ParseTurn == ParseTurned(parseStream_step(data, stream, pos, None))

NextTag == readU32(stream, pos)
HasTagAndSize == NextTag.ok /\ readU32(stream, pos + 4).ok
Dispatches(tag) == dpc = "parsing" /\ HasTagAndSize /\ NextTag.val = tag

\* lines 486 and 492: the stream ends in the tag or in the size
ParseShortRead ==
    /\ dpc = "parsing"
    /\ ~HasTagAndSize
    /\ ~(NextTag.ok /\ NextTag.val = SK_PICT_EOF_TAG)
    /\ ParseTurn

\* lines 487-489
ParseEOF == dpc = "parsing" /\ NextTag.ok /\ NextTag.val = SK_PICT_EOF_TAG /\ ParseTurn

ParseReader == Dispatches(SK_PICT_READER_TAG) /\ ParseTurn
ParseFactory == Dispatches(SK_PICT_FACTORY_TAG) /\ ParseTurn
ParseTypeface == Dispatches(SK_PICT_TYPEFACE_TAG) /\ ParseTurn
ParsePicture == Dispatches(SK_PICT_PICTURE_TAG) /\ ParseTurn
ParseBufferSize == Dispatches(SK_PICT_BUFFER_SIZE_TAG) /\ ParseTurn

OuterTags ==
    { SK_PICT_READER_TAG, SK_PICT_FACTORY_TAG, SK_PICT_TYPEFACE_TAG,
      SK_PICT_PICTURE_TAG, SK_PICT_BUFFER_SIZE_TAG, SK_PICT_EOF_TAG }

\* the default of the switch of parseStreamTag
ParseOther ==
    /\ dpc = "parsing"
    /\ HasTagAndSize
    /\ NextTag.val \notin OuterTags
    /\ ParseTurn

Init ==
    /\ pic \in Pictures
    /\ epc = "start"
    /\ out = << >>
    /\ typefaceSet = << >>
    /\ factSet = << >>
    /\ buffer = << >>
    /\ emitted = << >>
    /\ stream = << >>
    /\ pos = 0
    /\ data = NewPictureData
    /\ rb = ReadBuffer(<< >>, << >>, << >>)
    /\ dpc = "idle"

Next ==
    \/ SerializeReader
    \/ SerializeFlatten
    \/ SerializeDummy
    \/ SerializeFactories
    \/ SerializeTypefaces
    \/ SerializeBuffer
    \/ SerializePictures
    \/ SerializeEOF
    \/ OpenStream
    \/ ParseShortRead
    \/ ParseEOF
    \/ ParseReader
    \/ ParseFactory
    \/ ParseTypeface
    \/ ParsePicture
    \/ ParseBufferSize

Spec == Init /\ [][Next]_vars

(***************************************************************************)
(* Archives that no encoder wrote: CreateFromStream is called on a         *)
(* concatenation of sections, well-formed and not, in any order.           *)
(***************************************************************************)
ReaderSection(ops) == write_tag_size(SK_PICT_READER_TAG, Len(ops)) \o ops
BufferSection(bytes) == write_tag_size(SK_PICT_BUFFER_SIZE_TAG, Len(bytes)) \o bytes
PictureSection(archives) ==
    LET f[i \in 0..Len(archives)] ==
            IF i = 0 THEN write_tag_size(SK_PICT_PICTURE_TAG, Len(archives))
            ELSE f[i - 1] \o archives[i]
    IN  f[Len(archives)]
EOFSection == write32(SK_PICT_EOF_TAG)

\* The inner sections of a buffer: one paint that refers to typeface 1 of the
\* playback, and a tag the inner loop does not know.
InnerPaint ==
    write_tag_size(SK_PICT_PAINT_BUFFER_TAG, 1)
        \o write32(ItemWord("paint", 1)) \o write32(1) \o write32(0)
InnerUnknown == write_tag_size(UnknownTag, 0)
\* A paint count that does not fit in int, and a paint that does not
\* deserialize.
InnerBadCount == write_tag_size(SK_PICT_PAINT_BUFFER_TAG, -1)
InnerBadPaint ==
    write_tag_size(SK_PICT_PAINT_BUFFER_TAG, 1)
        \o write32(ItemWord("path", 1)) \o write32(0) \o write32(0)

\* A sub-picture archive that decodes, and one that does not (its BUFFER_SIZE
\* section has no FACTORY section before it).
GoodSubArchive ==
    ReaderSection(<< >>) \o WriteFactories(<< >>) \o BufferSection(<< >>) \o EOFSection
BadSubArchive == ReaderSection(<< >>) \o BufferSection(<< >>) \o EOFSection

Sections ==
    { ReaderSection(<< 7 >>),
      write_tag_size(SK_PICT_READER_TAG, 2) \o << 7 >>,
      WriteFactories(<< 1 >>),
      WriteTypefaces(<< 1 >>),
      write_tag_size(SK_PICT_TYPEFACE_TAG, 1) \o << 0, 0 >>,
      PictureSection(<< GoodSubArchive >>),
      PictureSection(<< BadSubArchive >>),
      BufferSection(InnerPaint),
      BufferSection(InnerUnknown),
      BufferSection(InnerBadCount),
      BufferSection(InnerBadPaint),
      write_tag_size(UnknownTag, 3),
      EOFSection }

\* What an archive may begin with.
Heads ==
    { << >>,
      ReaderSection(<< >>),
      ReaderSection(<< >>) \o WriteFactories(<< >>) \o WriteTypefaces(<< 1 >>) }

Concat(seqs) ==
    LET f[i \in 0..Len(seqs)] == IF i = 0 THEN << >> ELSE f[i - 1] \o seqs[i]
    IN  f[Len(seqs)]

SectionRuns == UNION { [1..k -> Sections] : k \in 0..MaxSections }

Archives ==
    { head \o Concat(body) \o tail :
        head \in Heads,
        body \in SectionRuns,
        tail \in {<< >>, EOFSection} }

\* CreateFromStream, lines 459-462, on one of the archives.
InitDecode ==
    /\ stream \in Archives
    /\ pos = 0
    /\ data = NewPictureData
    /\ rb = ReadBuffer(<< >>, << >>, << >>)
    /\ dpc = "parsing"
    /\ pic = Picture(<< >>, << >>, << >>, << >>, << >>, << >>, << >>, << >>)
    /\ epc = "off"
    /\ out = << >>
    /\ typefaceSet = << >>
    /\ factSet = << >>
    /\ buffer = << >>
    /\ emitted = << >>

NextDecode ==
    \/ ParseShortRead
    \/ ParseEOF
    \/ ParseReader
    \/ ParseFactory
    \/ ParseTypeface
    \/ ParsePicture
    \/ ParseBufferSize
    \/ ParseOther

SpecDecode == InitDecode /\ [][NextDecode]_vars

(***************************************************************************)
(* CreateFromBuffer on a buffer of inner sections, in any order.  The      *)
(* buffer has the factories 1 and 2 and the typeface 1 in its playbacks.   *)
(***************************************************************************)
InnerReader(ops) ==
    write_tag_size(SK_PICT_READER_TAG, Len(ops)) \o write32(Len(ops)) \o Pad4(ops)
InnerPaths ==
    write_tag_size(SK_PICT_PATH_BUFFER_TAG, 1) \o write32(1) \o write32(ItemWord("path", 2))
InnerBlobs ==
    write_tag_size(SK_PICT_TEXTBLOB_BUFFER_TAG, 2)
        \o write32(ItemWord("textblob", 1)) \o write32(ItemWord("textblob", 4))
\* Two text blobs of which the second does not deserialize.
InnerBlobsBad ==
    write_tag_size(SK_PICT_TEXTBLOB_BUFFER_TAG, 2)
        \o write32(ItemWord("textblob", 1)) \o write32(ItemWord("path", 1))
\* A count that does not fit in int, and a count of 0.
InnerBlobsHuge == write_tag_size(SK_PICT_TEXTBLOB_BUFFER_TAG, -1)
InnerNoImages == write_tag_size(SK_PICT_IMAGE_BUFFER_TAG, 0)
InnerVertices ==
    write_tag_size(SK_PICT_VERTICES_BUFFER_TAG, 1)
        \o write32(2) \o Pad4(EncodeVertices(3))
InnerImages == write_tag_size(SK_PICT_IMAGE_BUFFER_TAG, 1) \o write32(ItemWord("image", 5))
InnerDrawables ==
    write_tag_size(SK_PICT_DRAWABLE_TAG, 1) \o write32(2) \o write32(ItemWord("drawable", 1))
\* A drawable whose factory creates no drawables.
InnerDrawablesBad ==
    write_tag_size(SK_PICT_DRAWABLE_TAG, 1) \o write32(1) \o write32(ItemWord("drawable", 1))
\* A sub-picture, and one without op data.
InnerPictures ==
    write_tag_size(SK_PICT_PICTURE_TAG, 1) \o InnerReader(<< 5 >>) \o write32(SK_PICT_EOF_TAG)
InnerPicturesBad == write_tag_size(SK_PICT_PICTURE_TAG, 1) \o write32(SK_PICT_EOF_TAG)

InnerSections ==
    { InnerReader(<< 7, 9 >>), InnerPaint, InnerPaths, InnerBlobs, InnerBlobsBad,
      InnerBlobsHuge, InnerNoImages, InnerVertices, InnerImages, InnerDrawables,
      InnerDrawablesBad, InnerPictures, InnerPicturesBad, InnerUnknown }

InnerRuns == UNION { [1..k -> InnerSections] : k \in 0..MaxSections }

Buffers ==
    { Concat(body) \o tail : body \in InnerRuns, tail \in {<< >>, write32(SK_PICT_EOF_TAG)} }

\* One turn of the loop of parseBuffer, and lines 510-515 when the loop is
\* left: r is what the turn made of the state.
BufferTurned(r) ==
    /\ data' = r.data
    /\ rb' = r.rb
    /\ dpc' = IF r.status = "continue" THEN "parsing"
              ELSE IF parseBuffer_end(r.data, r.rb).ok THEN "ok" ELSE "null"
    /\ UNCHANGED << stream, pos, encoderVars >>

BufferTurn == BufferTurned(parseBuffer_step(data, rb))

\* The tag and the size that the turn reads (0 where the buffer has ended).
BufferTag == readUInt(rb).val
BufferSize == readUInt(readUInt(rb).rb).val
BufferDispatches(tag) == dpc = "parsing" /\ isValid(rb) /\ BufferTag = tag

\* line 501: the loop is left with an invalid buffer
BufferInvalid == dpc = "parsing" /\ ~isValid(rb) /\ BufferTurn
\* lines 503-505
BufferEOF == BufferDispatches(SK_PICT_EOF_TAG) /\ BufferTurn

BufferPaints == BufferDispatches(SK_PICT_PAINT_BUFFER_TAG) /\ BufferTurn
BufferPaths == BufferDispatches(SK_PICT_PATH_BUFFER_TAG) /\ BufferTurn
BufferTextBlobs == BufferDispatches(SK_PICT_TEXTBLOB_BUFFER_TAG) /\ BufferTurn
BufferVertices == BufferDispatches(SK_PICT_VERTICES_BUFFER_TAG) /\ BufferTurn
BufferImages == BufferDispatches(SK_PICT_IMAGE_BUFFER_TAG) /\ BufferTurn
BufferReader == BufferDispatches(SK_PICT_READER_TAG) /\ BufferTurn
BufferPictures == BufferDispatches(SK_PICT_PICTURE_TAG) /\ BufferTurn
BufferDrawables == BufferDispatches(SK_PICT_DRAWABLE_TAG) /\ BufferTurn

InnerTags ==
    { SK_PICT_PAINT_BUFFER_TAG, SK_PICT_PATH_BUFFER_TAG, SK_PICT_TEXTBLOB_BUFFER_TAG,
      SK_PICT_VERTICES_BUFFER_TAG, SK_PICT_IMAGE_BUFFER_TAG, SK_PICT_READER_TAG,
      SK_PICT_PICTURE_TAG, SK_PICT_DRAWABLE_TAG, SK_PICT_EOF_TAG }

\* the default of the switch of parseBufferTag
BufferOther ==
    /\ dpc = "parsing"
    /\ isValid(rb)
    /\ BufferTag \notin InnerTags
    /\ BufferTurn

\* CreateFromBuffer, lines 472-475, on one of the buffers.
InitBuffer ==
    /\ rb \in { ReadBuffer(bytes, << 1, 2 >>, << 1 >>) : bytes \in Buffers }
    /\ data = NewPictureData
    /\ dpc = "parsing"
    /\ stream = << >>
    /\ pos = 0
    /\ pic = Picture(<< >>, << >>, << >>, << >>, << >>, << >>, << >>, << >>)
    /\ epc = "off"
    /\ out = << >>
    /\ typefaceSet = << >>
    /\ factSet = << >>
    /\ buffer = << >>
    /\ emitted = << >>

NextBuffer ==
    \/ BufferInvalid
    \/ BufferEOF
    \/ BufferPaints
    \/ BufferPaths
    \/ BufferTextBlobs
    \/ BufferVertices
    \/ BufferImages
    \/ BufferReader
    \/ BufferPictures
    \/ BufferDrawables
    \/ BufferOther

SpecBuffer == InitBuffer /\ [][NextBuffer]_vars

(***************************************************************************)
(* CreateFromStream on an archive that serialize wrote, of which one byte  *)
(* was changed afterwards.                                                 *)
(***************************************************************************)
FlipDeltas == {1, 128}
\* The largest count of a TYPEFACE section whose table is built here: the
\* handler builds a table of count entries whatever the stream holds.
MaxTableCount == 16
\* Where the count word of the TYPEFACE section is in an archive of serialize.
TypefaceCountAt(bytes) ==
    8 + word_at(bytes, 4) + 8 + word_at(bytes, 8 + word_at(bytes, 4) + 4) + 4
Flips(bytes) ==
    { [bytes EXCEPT ![i] = (@ + d) % 256] : i \in 1..Len(bytes), d \in FlipDeltas }

InitFlip ==
    /\ pic \in Pictures
    /\ epc = "done"
    /\ out = serialize(pic, None).out
    /\ stream \in Flips(out)
    /\ word_at(stream, TypefaceCountAt(out)) \in 0..MaxTableCount
    /\ pos = 0
    /\ data = NewPictureData
    /\ rb = ReadBuffer(<< >>, << >>, << >>)
    /\ dpc = "parsing"
    /\ typefaceSet = << >>
    /\ factSet = << >>
    /\ buffer = << >>
    /\ emitted = << >>

SpecFlip == InitFlip /\ [][NextDecode]_vars

(***************************************************************************)
(* CreateFromStream on archives with sub-pictures that carry a typeface    *)
(* table of their own, an empty one, or none.  The top-level picture has   *)
(* the table of its head; every paint refers to typeface 1 of its buffer's *)
(* playback, but for the paint of SubOwnSecond, which refers to 2.         *)
(***************************************************************************)
InnerPaintSecond ==
    write_tag_size(SK_PICT_PAINT_BUFFER_TAG, 1)
        \o write32(ItemWord("paint", 1)) \o write32(2) \o write32(0)

SubArchive(typefaces, inner) ==
    ReaderSection(<< >>) \o WriteFactories(<< >>) \o typefaces
        \o BufferSection(inner) \o EOFSection

SubOwn == SubArchive(WriteTypefaces(<< 2 >>), InnerPaint)
SubShared == SubArchive(<< >>, InnerPaint)
SubEmptyTable == SubArchive(WriteTypefaces(<< >>), InnerPaint)
SubOwnSecond == SubArchive(WriteTypefaces(<< 2 >>), InnerPaintSecond)

SubSections ==
    { PictureSection(<< SubOwn, SubShared >>),
      PictureSection(<< SubOwn >>),
      PictureSection(<< SubShared >>),
      PictureSection(<< SubEmptyTable >>),
      PictureSection(<< SubOwnSecond >>),
      BufferSection(InnerPaint),
      write_tag_size(UnknownTag, 0),
      EOFSection }

SubHeads ==
    { ReaderSection(<< >>) \o WriteFactories(<< >>),
      ReaderSection(<< >>) \o WriteFactories(<< >>) \o WriteTypefaces(<< 1 >>),
      ReaderSection(<< >>) \o WriteFactories(<< >>) \o WriteTypefaces(<< 1, 1 >>) }

SubRuns == UNION { [1..k -> SubSections] : k \in 0..MaxSections }

SubArchives == { head \o Concat(body) : head \in SubHeads, body \in SubRuns }

InitSub ==
    /\ stream \in SubArchives
    /\ pos = 0
    /\ data = NewPictureData
    /\ rb = ReadBuffer(<< >>, << >>, << >>)
    /\ dpc = "parsing"
    /\ pic = Picture(<< >>, << >>, << >>, << >>, << >>, << >>, << >>, << >>)
    /\ epc = "off"
    /\ out = << >>
    /\ typefaceSet = << >>
    /\ factSet = << >>
    /\ buffer = << >>
    /\ emitted = << >>

SpecSub == InitSub /\ [][NextDecode]_vars

(***************************************************************************)
(* WriteFactories on every factory set of up to MaxFactories factories,    *)
(* named or not, after the READER section of a picture without op data.    *)
(***************************************************************************)
FactorySets ==
    { rec \in UNION { [1..k -> Factories \cup OddFactories] : k \in 0..MaxFactories } :
        \A i, j \in 1..Len(rec) : rec[i] = rec[j] => i = j }

InitFactories ==
    /\ pic = Picture(<< >>, << >>, << >>, << >>, << >>, << >>, << >>, << >>)
    /\ epc = "dummied"
    /\ out = serialize_reader(pic)
    /\ emitted = << SK_PICT_READER_TAG >>
    /\ typefaceSet = << >>
    /\ factSet \in FactorySets
    /\ buffer = << >>
    /\ stream = << >>
    /\ pos = 0
    /\ data = NewPictureData
    /\ rb = ReadBuffer(<< >>, << >>, << >>)
    /\ dpc = "idle"

SpecFactories == InitFactories /\ [][SerializeFactories]_vars

(***************************************************************************)
(* The PATH_BUFFER section on both sides: flattenToBuffer on pictures with *)
(* zero, one or two paths, and CreateFromBuffer on buffers that hold one   *)
(* PATH_BUFFER section, well-formed or not, between other sections.        *)
(***************************************************************************)
PathSection(size, count, words) ==
    LET f[i \in 0..Len(words)] ==
            IF i = 0 THEN write_tag_size(SK_PICT_PATH_BUFFER_TAG, size) \o write32(count)
            ELSE f[i - 1] \o write32(words[i])
    IN  f[Len(words)]

\* As flattenToBuffer writes it; a size of 0 with nothing after it, and with
\* a count and a path after it; a size larger and one smaller than the
\* count; a negative count; a second word that is no path; a size of
\* 0xFFFFFFFF; and one path fewer than the count.
PathSections ==
    { PathSection(2, 2, << ItemWord("path", 1), ItemWord("path", 2) >>),
      write_tag_size(SK_PICT_PATH_BUFFER_TAG, 0),
      PathSection(0, 1, << ItemWord("path", 1) >>),
      PathSection(5, 1, << ItemWord("path", 2) >>),
      PathSection(1, 2, << ItemWord("path", 2), ItemWord("path", 1) >>),
      PathSection(1, -1, << ItemWord("path", 1) >>),
      PathSection(3, 3, << ItemWord("path", 1), ItemWord("image", 1), ItemWord("path", 2) >>),
      PathSection(-1, 1, << ItemWord("path", 1) >>),
      PathSection(2, 2, << ItemWord("path", 1) >>) }

SectionsBefore == { << >>, InnerReader(<< 7 >>), InnerPaint, InnerPaths }

SectionsAfter ==
    { << >>, write32(SK_PICT_EOF_TAG), InnerBlobs, InnerVertices, InnerImages,
      InnerPictures, InnerDrawables, InnerUnknown, InnerPaths }

PathBuffers ==
    { before \o paths \o after :
        before \in SectionsBefore, paths \in PathSections, after \in SectionsAfter }

PathPictures ==
    { Picture(<< >>, paints, paths, blobs, << >>, << >>, << >>, << >>) :
        paints \in {<< >>, << [tf |-> 1, fx |-> 0] >>},
        paths \in {<< >>, << 1 >>, << 2, 1 >>},
        blobs \in {<< >>, << 4 >>} }

\* serialize before line 183 on one of the pictures, and CreateFromBuffer,
\* lines 472-475, on one of the buffers.
InitPaths ==
    /\ pic \in PathPictures
    /\ epc = "reader"
    /\ out = serialize_reader(pic)
    /\ emitted = << SK_PICT_READER_TAG >>
    /\ typefaceSet = << >>
    /\ factSet = << >>
    /\ buffer = << >>
    /\ rb \in { ReadBuffer(bytes, << 1, 2 >>, << 1 >>) : bytes \in PathBuffers }
    /\ data = NewPictureData
    /\ dpc = "parsing"
    /\ stream = << >>
    /\ pos = 0

NextPaths ==
    \/ SerializeFlatten
    \/ BufferInvalid
    \/ BufferEOF
    \/ BufferPaints
    \/ BufferPaths
    \/ BufferTextBlobs
    \/ BufferVertices
    \/ BufferImages
    \/ BufferReader
    \/ BufferPictures
    \/ BufferDrawables
    \/ BufferOther

SpecPaths == InitPaths /\ [][NextPaths]_vars

(***************************************************************************)
(* What the properties below speak of.                                     *)
(***************************************************************************)
Last(seq) == seq[Len(seq)]
Range(seq) == {seq[i] : i \in 1..Len(seq)}
IsPrefix(a, b) == Len(a) <= Len(b) /\ SubSeq(b, 1, Len(a)) = a
Occurrences(seq, x) == Cardinality({i \in 1..Len(seq) : seq[i] = x})

\* The outer tags a decode dispatched, in order (EOF_TAG is not dispatched).
SectionTags(d) == [i \in 1..Len(d.sections) |-> d.sections[i].tag]
FactoryRead(d) == SK_PICT_FACTORY_TAG \in Range(SectionTags(d))
Resources(d) ==
    << d.fPaints, d.fPaths, d.fTextBlobs, d.fVertices, d.fImages, d.fDrawables,
       d.fPictures >>

\* The next section of the stream is this one.
NextIs(section) ==
    /\ pos + Len(section) <= Len(stream)
    /\ SubSeq(stream, pos + 1, pos + Len(section)) = section

\* The whole archive was decoded, and the call returned.
WholeArchive == epc = "done" /\ stream = out
Returned == dpc \in {"ok", "null"}

RECURSIVE SameResources(_, _)
\* D has the op data, the paints, paths, text blobs, vertices and images of
\* P, and sub-pictures that have those of P's.
SameResources(P, D) ==
    /\ D.fOpData = Some(P.fOpData)
    /\ D.fPaints = P.fPaints
    /\ D.fPaths = P.fPaths
    /\ D.fTextBlobs = P.fTextBlobs
    /\ D.fVertices = P.fVertices
    /\ D.fImages = P.fImages
    /\ Len(D.fPictures) = Len(P.fPictures)
    /\ \A i \in 1..Len(P.fPictures) : SameResources(P.fPictures[i], D.fPictures[i])

RECURSIVE SameDrawables(_, _)
SameDrawables(P, D) ==
    /\ D.fDrawables = P.fDrawables
    /\ Len(D.fPictures) = Len(P.fPictures)
    /\ \A i \in 1..Len(P.fPictures) : SameDrawables(P.fPictures[i], D.fPictures[i])

\* C1 (as amended): decoding the archive of a picture returns a picture with
\* the same op data, paints, paths, text blobs, vertices, images and
\* sub-picture tree; its drawables are not in the archive, and the decoded
\* picture has none.
C1_RoundTripExceptDrawables ==
    (WholeArchive /\ Returned) =>
        /\ dpc = "ok"
        /\ SameResources(pic, data)
        /\ data.fDrawables = << >>

C1_Witness ==
    /\ WholeArchive
    /\ dpc = "ok"
    /\ pic.fDrawables # << >>
    /\ pic.fPaints # << >>
    /\ pic.fImages # << >>

\* C1 as stated: the decoded picture has every resource array of the
\* serialized one, drawables included.
C1_RoundTrip ==
    (WholeArchive /\ Returned) =>
        /\ dpc = "ok"
        /\ SameResources(pic, data)
        /\ SameDrawables(pic, data)

\* The tags of the archive of P, written with no typeface set passed in, and
\* the tags a decoder dispatches in the archive of a sub-picture P.
ExpectedOrder(P) ==
    << SK_PICT_READER_TAG, SK_PICT_FACTORY_TAG, SK_PICT_TYPEFACE_TAG,
       SK_PICT_BUFFER_SIZE_TAG >>
        \o (IF P.fPictures # << >> THEN << SK_PICT_PICTURE_TAG >> ELSE << >>)
        \o << SK_PICT_EOF_TAG >>
SubOrder(P) ==
    << SK_PICT_READER_TAG, SK_PICT_FACTORY_TAG, SK_PICT_BUFFER_SIZE_TAG >>
        \o (IF P.fPictures # << >> THEN << SK_PICT_PICTURE_TAG >> ELSE << >>)

RECURSIVE SubArchivesInOrder(_, _)
SubArchivesInOrder(P, D) ==
    /\ Len(D.fPictures) = Len(P.fPictures)
    /\ \A i \in 1..Len(P.fPictures) :
          /\ SectionTags(D.fPictures[i]) = SubOrder(P.fPictures[i])
          /\ SubArchivesInOrder(P.fPictures[i], D.fPictures[i])

\* C2: serialize writes READER, FACTORY, TYPEFACE (the top-level call only),
\* BUFFER_SIZE, PICTURE (only with sub-pictures), EOF in this order, EOF_TAG
\* being the last word; the archives of sub-pictures have the same order
\* without TYPEFACE.
C2_SectionOrder ==
    /\ IsPrefix(emitted, ExpectedOrder(pic))
    /\ epc = "done" =>
          /\ emitted = ExpectedOrder(pic)
          /\ out = serialize(pic, None).out
          /\ word_at(out, Len(out) - 4) = SK_PICT_EOF_TAG
    /\ (WholeArchive /\ dpc = "ok") =>
          /\ SectionTags(data) \o << SK_PICT_EOF_TAG >> = ExpectedOrder(pic)
          /\ SubArchivesInOrder(pic, data)

C2_Witness ==
    /\ WholeArchive
    /\ dpc = "ok"
    /\ Len(pic.fPictures) = 2
    /\ pic.fPictures[1].fPictures # << >>

RECURSIVE TypefacesOf(_)
\* The typefaces the paints of P and of its sub-pictures refer to.
TypefacesOf(P) ==
    ({P.fPaints[i].tf : i \in 1..Len(P.fPaints)} \ {0})
        \cup UNION {TypefacesOf(P.fPictures[i]) : i \in 1..Len(P.fPictures)}

\* Where the TYPEFACE section begins in the output, and the count it holds.
TypefaceSectionAt == Len(serialize_reader(pic)) + Len(WriteFactories(factSet))
EmittedTypefaceCount == word_at(out, TypefaceSectionAt + 4)

RECURSIVE SubPaintsResolve(_, _)
\* The typeface of every paint of every sub-picture of D is the one the
\* paint of P has: its index was one of the table's.
SubPaintsResolve(P, D) ==
    /\ Len(D.fPictures) = Len(P.fPictures)
    /\ \A i \in 1..Len(P.fPictures) :
          /\ Len(D.fPictures[i].fPaints) = Len(P.fPictures[i].fPaints)
          /\ \A k \in 1..Len(P.fPictures[i].fPaints) :
                D.fPictures[i].fPaints[k].tf = P.fPictures[i].fPaints[k].tf
          /\ SubPaintsResolve(P.fPictures[i], D.fPictures[i])

\* C3: once the TYPEFACE section is written, the typeface set holds every
\* typeface of the picture and of its sub-pictures, the section's count is
\* the size the set keeps to the end of serialize, and every typeface index
\* in a sub-picture's buffer is one of the decoded table.
C3_TypefaceSetComplete ==
    /\ epc \in {"typefaces", "buffer", "pictures", "done"} =>
          /\ word_at(out, TypefaceSectionAt) = SK_PICT_TYPEFACE_TAG
          /\ TypefacesOf(pic) \subseteq Range(typefaceSet)
          /\ Len(typefaceSet) = EmittedTypefaceCount
    /\ (WholeArchive /\ Returned) =>
          /\ dpc = "ok"
          /\ Len(data.fTFPlayback) = EmittedTypefaceCount
          /\ SubPaintsResolve(pic, data)

C3_Witness ==
    /\ WholeArchive
    /\ dpc = "ok"
    /\ pic.fPaints = << >>
    /\ pic.fPictures # << >>
    /\ EmittedTypefaceCount = 2

RECURSIVE NoSubTypefaceSection(_)
\* No archive of a sub-picture of D had a TYPEFACE section.
NoSubTypefaceSection(D) ==
    \A i \in 1..Len(D.fPictures) :
        /\ SK_PICT_TYPEFACE_TAG \notin Range(SectionTags(D.fPictures[i]))
        /\ D.fPictures[i].fTFPlayback = << >>
        /\ NoSubTypefaceSection(D.fPictures[i])

\* C4: the archive of a top-level picture has one TYPEFACE section, in which
\* every typeface of the picture and of its sub-pictures is once, and the
\* archives of its sub-pictures have none.
C4_SharedTypefaceTable ==
    /\ epc \in {"typefaces", "buffer", "pictures", "done"} =>
          \A t \in TypefacesOf(pic) : Occurrences(typefaceSet, t) = 1
    /\ (WholeArchive /\ dpc = "ok") =>
          /\ Occurrences(SectionTags(data), SK_PICT_TYPEFACE_TAG) = 1
          /\ \A t \in TypefacesOf(pic) : Occurrences(data.fTFPlayback, t) = 1
          /\ Len(data.fTFPlayback) = Cardinality(TypefacesOf(pic))
          /\ NoSubTypefaceSection(data)

C4_Witness ==
    /\ WholeArchive
    /\ dpc = "ok"
    /\ pic.fPaints # << >>
    /\ pic.fPictures # << >>
    /\ pic.fPictures[1].fPaints = pic.fPaints
    /\ data.fTFPlayback = << pic.fPaints[1].tf >>

\* C5 as stated: CreateFromStream returns a picture only if a READER section
\* was read and the op data is not null.
C5_OpDataRequired ==
    dpc = "ok" =>
        /\ SK_PICT_READER_TAG \in Range(SectionTags(data))
        /\ data.fOpData # None

C7_LateSectionDetected ==
    \A i, j \in 1..Len(data.sections) :
        (/\ i < j
         /\ data.sections[i].tag = SK_PICT_BUFFER_SIZE_TAG
         /\ data.sections[i].ok
         /\ data.sections[j].tag \in {SK_PICT_FACTORY_TAG, SK_PICT_TYPEFACE_TAG})
            => ("!haveBuffer" \in data.asserts /\ ~data.sections[j].ok)

\* C8 as stated: an archive that decodes has had at most one BUFFER_SIZE
\* section processed.
C8_BufferedOnce ==
    dpc = "ok" => Occurrences(SectionTags(data), SK_PICT_BUFFER_SIZE_TAG) <= 1

\* Sections whose handler fails in every state of the decoder.
FailingSections ==
    { PictureSection(<< BadSubArchive >>),
      BufferSection(InnerUnknown),
      BufferSection(InnerBadCount),
      BufferSection(InnerBadPaint) }

\* C9: a section whose handler fails (a short read, no factory playback, a
\* sub-picture that does not decode, an inner loop that ends invalid) is
\* the last one dispatched, and CreateFromStream returns null.
C9_FailurePolicy ==
    /\ [](\A i \in 1..Len(data.sections) :
              ~data.sections[i].ok => (i = Len(data.sections) /\ dpc = "null"))
    /\ [][(dpc = "parsing" /\ \E section \in FailingSections : NextIs(section))
              => dpc' = "null"]_vars
    /\ [][dpc = "null" => UNCHANGED vars]_vars

C9_Witness ==
    /\ dpc = "null"
    /\ FactoryRead(data)
    /\ Last(data.sections) = [tag |-> SK_PICT_BUFFER_SIZE_TAG, ok |-> FALSE, inner |-> 1]
    /\ data.fPaints # << >>
    /\ pos < Len(stream)

\* C10: CreateFromStream on a proper prefix of an archive returns null, and
\* returns: every turn of its loop that does not end it moves the stream
\* on, and never beyond the stream's end.
C10_TruncationSafety ==
    /\ [](pos <= Len(stream) /\ (dpc = "ok" => stream = out))
    /\ [][(dpc = "parsing" /\ dpc' = "parsing") => pos' > pos]_vars

C10_Witness ==
    /\ dpc = "null"
    /\ 0 < Len(stream)
    /\ Len(stream) < Len(out)
    /\ SK_PICT_BUFFER_SIZE_TAG \in Range(SectionTags(data))
    /\ pic.fPictures # << >>

\* C11 as stated, for the READER_TAG handler of the stream: a READER section
\* dispatched when an earlier one has set the op data is rejected.
C11_OpDataOnce ==
    \A i, j \in 1..Len(data.sections) :
        (/\ i < j
         /\ data.sections[i].tag = SK_PICT_READER_TAG
         /\ data.sections[i].ok
         /\ data.sections[j].tag = SK_PICT_READER_TAG)
            => ~data.sections[j].ok

\* The sections that new_array_from_buffer reads, with the arrays they fill.
ArraySections ==
    { [tag |-> SK_PICT_TEXTBLOB_BUFFER_TAG, field |-> "fTextBlobs"],
      [tag |-> SK_PICT_VERTICES_BUFFER_TAG, field |-> "fVertices"],
      [tag |-> SK_PICT_IMAGE_BUFFER_TAG, field |-> "fImages"],
      [tag |-> SK_PICT_DRAWABLE_TAG, field |-> "fDrawables"],
      [tag |-> SK_PICT_PICTURE_TAG, field |-> "fPictures"] }

DataFields ==
    { "fOpData", "fFactoryPlayback", "fTFPlayback", "fPaints", "fPaths", "fTextBlobs",
      "fVertices", "fImages", "fDrawables", "fPictures" }

\* C12: a section read by new_array_from_buffer leaves either the buffer
\* valid and the array, empty before, with exactly size items, or the buffer
\* invalid and the array as it was (empty, if it was empty: the items read
\* before the one that failed are dropped); with a non-empty array or a size
\* that does not fit in int the buffer is left invalid.  No other array
\* changes.
C12_AllOrNothing ==
    [][\A a \in ArraySections :
          BufferDispatches(a.tag) =>
              /\ \/ /\ isValid(rb')
                    /\ data[a.field] = << >>
                    /\ BufferSize >= 0
                    /\ Len(data'[a.field]) = BufferSize
                 \/ /\ ~isValid(rb')
                    /\ data'[a.field] = data[a.field]
              /\ (data[a.field] # << >> \/ BufferSize < 0) => ~isValid(rb')
              /\ \A f \in DataFields \ {a.field} : data'[f] = data[f]]_vars

C12_Witness ==
    /\ ~isValid(rb)
    /\ rb.bytes = InnerImages \o InnerBlobsBad
    /\ data.fImages = << 5 >>
    /\ data.fTextBlobs = << >>

\* The size word of the section that the next turn of parseStream dispatches.
NextSize == readU32(stream, pos + 4).val

\* A TYPEFACE section of one typeface whose bytes are no typeface.
GarbageTypefaces == write_tag_size(SK_PICT_TYPEFACE_TAG, 1) \o << 0, 0 >>

\* C13: the TYPEFACE handler, for a count N, returns true and leaves a
\* table of N typefaces, the default typeface where one did not
\* deserialize; the loop goes on.
C13_TypefaceSubstitution ==
    [][(Dispatches(SK_PICT_TYPEFACE_TAG) /\ SkTFitsIn_int(NextSize)) =>
          /\ dpc' = "parsing"
          /\ Last(data'.sections) = [tag |-> SK_PICT_TYPEFACE_TAG, ok |-> TRUE, inner |-> 0]
          /\ Len(data'.fTFPlayback) = NextSize
          /\ \A i \in 1..Len(data'.fTFPlayback) :
                data'.fTFPlayback[i] \in (1..NumTypefaces) \cup {DefaultTypeface}
          /\ NextIs(GarbageTypefaces) => data'.fTFPlayback = << DefaultTypeface >>
          /\ NextIs(WriteTypefaces(<< 1 >>)) => data'.fTFPlayback = << 1 >>]_vars

C13_Witness ==
    /\ dpc = "ok"
    /\ data.fTFPlayback = << DefaultTypeface >>
    /\ data.fPaints = << [tf |-> DefaultTypeface, fx |-> 0] >>

\* C14: a tag that is none of READER, FACTORY, TYPEFACE, PICTURE,
\* BUFFER_SIZE and EOF is handled with success: no field of the picture
\* changes, the stream stands after the size word, and the loop goes on.
C14_UnknownOuterTag ==
    [][(dpc = "parsing" /\ HasTagAndSize /\ NextTag.val \notin OuterTags) =>
          /\ dpc' = "parsing"
          /\ pos' = pos + 8
          /\ \A f \in DataFields : data'[f] = data[f]
          /\ data'.asserts = data.asserts
          /\ Last(data'.sections) = [tag |-> NextTag.val, ok |-> TRUE, inner |-> 0]]_vars

C14_Witness ==
    /\ dpc = "ok"
    /\ UnknownTag \in Range(SectionTags(data))
    /\ Last(SectionTags(data)) = SK_PICT_BUFFER_SIZE_TAG
    /\ data.fPaints # << >>

\* The byte of the stream that is not the archive's; where the FACTORY,
\* TYPEFACE and BUFFER_SIZE sections of the archive begin; the bytes of the
\* archive that are in the tag and size words of its sections, the count of
\* the FACTORY section and the EOF tag.
FlipAt == CHOOSE i \in 1..Len(out) : stream[i] # out[i]
FactoryAt == 8 + word_at(out, 4)
TypefaceAt == FactoryAt + 8 + word_at(out, FactoryAt + 4)
BufferAt == TypefaceAt + 8 + 2 * word_at(out, TypefaceAt + 4)
OuterFraming ==
    (1..8)
        \cup ((FactoryAt + 1)..(FactoryAt + 12))
        \cup ((TypefaceAt + 1)..(TypefaceAt + 8))
        \cup ((BufferAt + 1)..(BufferAt + 8))
        \cup ((Len(out) - 3)..Len(out))

\* C15 as stated: an archive with one byte changed decodes only if the byte
\* is none of a tag or size word.
C15_BitFlipRejected ==
    (dpc = "ok" /\ Len(stream) = Len(out) /\ stream # out) => FlipAt \notin OuterFraming

\* C16 as stated: no allocation of the decoder asks for more than the
\* input has left.
C16_AllocationsValidated ==
    \A i \in 1..Len(data.allocs) :
        ~ULess(data.allocs[i].remaining, data.allocs[i].size)

RECURSIVE AsPicture(_)
\* The picture that a decoded SkPictureData is.
AsPicture(D) ==
    Picture(D.fOpData[1], D.fPaints, D.fPaths, D.fTextBlobs, D.fVertices, D.fImages,
            D.fDrawables, [i \in 1..Len(D.fPictures) |-> AsPicture(D.fPictures[i])])

\* C17: serialize of the picture decoded from the archive of a picture
\* writes that archive again, byte for byte.
C17_Idempotence ==
    (WholeArchive /\ Returned) =>
        /\ dpc = "ok"
        /\ serialize(AsPicture(data), None).out = out

C17_Witness ==
    /\ WholeArchive
    /\ dpc = "ok"
    /\ pic.fVertices = << 3, 1 >>
    /\ pic.fDrawables # << >>
    /\ pic.fOpData # << >>

\* A picture with zero-length op data, no resources and no sub-pictures.
EmptyPicture == Picture(<< >>, << >>, << >>, << >>, << >>, << >>, << >>, << >>)

\* The archive of words READER_TAG 0 FACTORY_TAG 4 0 TYPEFACE_TAG 0
\* BUFFER_SIZE_TAG 0 EOF_TAG.
EmptyArchive ==
    write_tag_size(SK_PICT_READER_TAG, 0)
        \o write_tag_size(SK_PICT_FACTORY_TAG, 4) \o write32(0)
        \o write_tag_size(SK_PICT_TYPEFACE_TAG, 0)
        \o write_tag_size(SK_PICT_BUFFER_SIZE_TAG, 0)
        \o write32(SK_PICT_EOF_TAG)

\* The archive of words READER_TAG 0 FACTORY_TAG 4 0 BUFFER_SIZE_TAG 0 EOF_TAG.
EmptyArchiveAsSpecified ==
    write_tag_size(SK_PICT_READER_TAG, 0)
        \o write_tag_size(SK_PICT_FACTORY_TAG, 4) \o write32(0)
        \o write_tag_size(SK_PICT_BUFFER_SIZE_TAG, 0)
        \o write32(SK_PICT_EOF_TAG)

\* C18: serialize of the empty top-level picture writes the words READER_TAG 0
\* FACTORY_TAG 4 0 TYPEFACE_TAG 0 BUFFER_SIZE_TAG 0 EOF_TAG and nothing else,
\* and decoding them yields a picture with zero-length op data.
C18_EmptyPicture ==
    /\ (pic = EmptyPicture /\ epc = "done") => out = EmptyArchive
    /\ (pic = EmptyPicture /\ WholeArchive /\ Returned) =>
           /\ dpc = "ok"
           /\ data.fOpData = Some(<< >>)

C18_Witness ==
    /\ pic = EmptyPicture
    /\ WholeArchive
    /\ dpc = "ok"
    /\ out = EmptyArchive

\* C18 as stated: the archive of the empty picture has no TYPEFACE section.
C18_EmptyPictureAsSpecified ==
    /\ (pic = EmptyPicture /\ epc = "done") => out = EmptyArchiveAsSpecified
    /\ (pic = EmptyPicture /\ WholeArchive /\ Returned) =>
           /\ dpc = "ok"
           /\ data.fOpData = Some(<< >>)

\* The table the BUFFER_SIZE handler of the sub-picture D of T is to install.
InstalledPlayback(T, D) ==
    IF Len(D.fTFPlayback) > 0 THEN D.fTFPlayback ELSE T.fTFPlayback

\* The typefaces the paints refer to (0 is the paint without a typeface).
PaintTypefaces(paints) == {paints[k].tf : k \in 1..Len(paints)} \ {0}

\* The bytes hold the section somewhere.
Contains(bytes, section) ==
    \E p \in 0..(Len(bytes) - Len(section)) :
        SubSeq(bytes, p + 1, p + Len(section)) = section

\* C19: the typeface of a paint of a decoded sub-picture is one of the
\* sub-picture's own table when that table has entries, and one of the
\* top-level table when the sub-picture read no TYPEFACE section or an empty
\* one; the paints of the top-level picture have typefaces of its own table;
\* and no decode gets past a sub-picture whose paint refers to an entry that
\* the top-level table has and the sub-picture's own, non-empty, table lacks.
C19_TypefaceTableChoice ==
    /\ PaintTypefaces(data.fPaints) \subseteq Range(data.fTFPlayback)
    /\ \A i \in 1..Len(data.fPictures) :
          PaintTypefaces(data.fPictures[i].fPaints)
              \subseteq Range(InstalledPlayback(data, data.fPictures[i]))
    /\ dpc # "null" => ~Contains(SubSeq(stream, 1, pos), PictureSection(<< SubOwnSecond >>))

C19_Witness ==
    /\ dpc = "ok"
    /\ data.fTFPlayback = << 1, 1 >>
    /\ Len(data.fPictures) = 3
    /\ data.fPictures[1].fTFPlayback = << 2 >>
    /\ data.fPictures[1].fPaints = << [tf |-> 2, fx |-> 0] >>
    /\ data.fPictures[2].fTFPlayback = << >>
    /\ data.fPictures[2].fPaints = << [tf |-> 1, fx |-> 0] >>
    /\ SectionTags(data.fPictures[3]) =
           << SK_PICT_READER_TAG, SK_PICT_FACTORY_TAG, SK_PICT_TYPEFACE_TAG,
              SK_PICT_BUFFER_SIZE_TAG >>
    /\ data.fPictures[3].fTFPlayback = << >>
    /\ data.fPictures[3].fPaints = << [tf |-> 1, fx |-> 0] >>

\* Where the FACTORY section begins in the output.
FactorySectionAt == Len(serialize_reader(pic))

\* The length of the name of a factory, 0 for one without a name.
NameLength(f) == IF FactoryToName(f) = None THEN 0 ELSE Len(FactoryToName(f)[1])

\* 4 for the count plus, per entry, the packed size of the length of the name
\* plus the length of the name.
ExpectedChunkSize(rec) ==
    LET f[i \in 0..Len(rec)] ==
            IF i = 0 THEN 4
            ELSE f[i - 1] + SizeOfPackedUInt(NameLength(rec[i])) + NameLength(rec[i])
    IN  f[Len(rec)]

\* C20: once WriteFactories has returned, the size word after FACTORY_TAG is
\* the number of bytes written after it (the SkASSERT of line 119), and that
\* is 4 plus, per factory, the packed size of its name's length plus the
\* length.
C20_FactorySectionSize ==
    epc = "factories" =>
        /\ word_at(out, FactorySectionAt) = SK_PICT_FACTORY_TAG
        /\ word_at(out, FactorySectionAt + 4) = Len(out) - (FactorySectionAt + 8)
        /\ word_at(out, FactorySectionAt + 4) = ExpectedChunkSize(factSet)
        /\ word_at(out, FactorySectionAt + 8) = Len(factSet)

C20_Witness ==
    /\ epc = "factories"
    /\ factSet = << 6, 3, 4 >>
    /\ Len(out) = 8 + 12 + (5 + MaxNameLen) + 1 + 1

\* The 4-byte-aligned offsets of the scratch buffer that hold PATH_BUFFER_TAG.
PathTagsAt ==
    {4 * i : i \in {j \in 0..(Len(buffer) \div 4 - 1) :
                       word_at(buffer, 4 * j) = SK_PICT_PATH_BUFFER_TAG}}

\* Where the section after the paints begins: a paint is three words.
AfterPaints == IF pic.fPaints = << >> THEN 0 ELSE 8 + 12 * Len(pic.fPaints)

\* What flattenToBuffer left in the scratch buffer for the paths of pic.
PathsFlattened ==
    IF pic.fPaths = << >> THEN PathTagsAt = {}
    ELSE /\ PathTagsAt = {AfterPaints}
         /\ Len(buffer) >= AfterPaints + 12 + 4 * Len(pic.fPaths)
         /\ word_at(buffer, AfterPaints + 4) = Len(pic.fPaths)
         /\ word_at(buffer, AfterPaints + 8) = Len(pic.fPaths)
         /\ \A k \in 1..Len(pic.fPaths) :
               word_at(buffer, AfterPaints + 8 + 4 * k) = ItemWord("path", pic.fPaths[k])

\* The word k of the section at the read position (word 0 is the tag, 1 the
\* size, 2 the inner count), and whether the buffer holds it.
HasSectionWord(k) == rb.pos + 4 * k + 4 <= Len(rb.bytes)
SectionWord(k) == word_at(rb.bytes, rb.pos + 4 * k)
IsPathAt(k) == HasSectionWord(k) /\ IsItemWord("path", SectionWord(k))

\* The paths appended by the step, and the step of the PATH_BUFFER handler.
PathsAdded == Len(data'.fPaths) - Len(data.fPaths)
PathsKept == data'.fPaths = data.fPaths
PathsStep == BufferDispatches(SK_PICT_PATH_BUFFER_TAG) /\ rb' # rb

\* What the PATH_BUFFER handler makes of the section at the read position.
PathsHandled ==
    IF ~HasSectionWord(1) THEN PathsKept /\ ~isValid(rb')
    ELSE IF SectionWord(1) = 0
    THEN PathsKept /\ isValid(rb') /\ rb'.pos = rb.pos + 8
    ELSE IF ~HasSectionWord(2) \/ SectionWord(2) < 0
    THEN PathsKept /\ ~isValid(rb')
    ELSE /\ IsPrefix(data.fPaths, data'.fPaths)
         /\ PathsAdded \in 0..SectionWord(2)
         /\ isValid(rb') =>
               /\ PathsAdded = SectionWord(2)
               /\ rb'.pos = rb.pos + 12 + 4 * SectionWord(2)
         /\ ~isValid(rb') =>
               /\ PathsAdded >= 1
               /\ ~IsPathAt(2 + PathsAdded)
               /\ data'.fPaths[Len(data'.fPaths)] = 0
         /\ \A k \in 1..PathsAdded :
               (k < PathsAdded \/ isValid(rb')) =>
                   /\ IsPathAt(2 + k)
                   /\ data'.fPaths[Len(data.fPaths) + k] = SectionWord(2 + k) % 256

\* C21: flattenToBuffer writes a PATH_BUFFER section only for a picture with
\* paths, with the section size and the inner count both the number of paths;
\* the PATH_BUFFER handler reads the inner count only when the size is not 0,
\* rejects a negative count, and appends as many paths as the inner count
\* says, whatever the size, up to the first path that invalidates the buffer.
C21_PathSectionCounts ==
    /\ [](epc = "flattened" => PathsFlattened)
    /\ [][PathsStep => PathsHandled]_vars

\* A section of size 5 and inner count 1 was read, next to the flattened
\* buffer of a picture with two paths.
C21_Witness ==
    /\ epc = "flattened"
    /\ pic.fPaths = << 2, 1 >>
    /\ dpc = "ok"
    /\ rb.bytes = InnerReader(<< 7 >>) \o PathSection(5, 1, << ItemWord("path", 2) >>)
                      \o write32(SK_PICT_EOF_TAG)
    /\ data.fPaths = << 2 >>

=============================================================================
